---- MODULE Spec2Model ----
(***************************************************************************)
(* master_control: a per-node workload supervisor (registry, runners,      *)
(* cron scheduler, health checker, command handlers), the central fleet    *)
(* state store and the rolling deployer.                                   *)
(*                                                                         *)
(* Every process is a single asyncio event loop: a coroutine runs          *)
(* atomically from one suspension point (await of a timer, a child, a      *)
(* database or HTTP round trip, another task) to the next.  Each action    *)
(* below is one such atomic section of one task.                           *)
(***************************************************************************)
EXTENDS Integers, Sequences, FiniteSets, TLC

(***************************************************************************)
(* Bounds of the model.                                                    *)
(***************************************************************************)
MaxRunners == 2      \* WorkloadRunner objects created during one behaviour
MaxCalls == 2        \* command handlers in flight at the same time
MaxRuns == 2         \* largest max_runs of an n_times spec
CronPeriod == 2      \* distance, in clock units, between two cron matches
MaxBatch == 2        \* largest batch_size of a deployment request
MaxClock == 2        \* the central server's clock stops advancing here
MaxThreshold == 1    \* largest stale threshold, in clock units
MaxReloads == 1      \* reloads that find the directory changed, per behaviour
MaxTargets == 4      \* longest target list of a deployment request

MaxTime == 3 * CronPeriod       \* the node clock stops advancing here

NameSeq == <<"w", "z">>         \* workload names, sorted
Names == {NameSeq[i] : i \in 1..Len(NameSeq)}
BootNames == {NameSeq[1]}       \* the workloads of a node that never reloads
RIDs == 1..MaxRunners
CIDs == 1..MaxCalls

VARIABLES
    phase,      \* Orchestrator: "constructed", "serving", "closing", "down"
    files,      \* the config directory as load_all() last found it
    registry,   \* Orchestrator._registry: name -> spec
    runners,    \* Orchestrator._runners: name -> runner object (0: absent);
                \* without an orchestrator, the caller's own reference
    rn,         \* the WorkloadRunner objects: spec, _state, _process, ...
    entries,    \* ScheduleManager._entries: name -> next_run
    now,        \* the node's clock as last read by the scheduler loop
    calls,      \* command handlers (IPC/HTTP) and direct stop() calls in flight
    reply,      \* what the handler that ended in the last step returned
    rl,         \* the locals of the reload_configs call in flight
    reloads,    \* the reload commands so far that found the directory changed
    version_file,       \* the content of .mctl-version ("null": no file)
    deployed_version,   \* Orchestrator._deployed_version
    payload,    \* the HeartbeatPayload the reporter built last
    deployment, \* the deployments row of the one deployment: status, request
    dep_clients,\* its deployment_clients rows: status, batch_number,
                \* previous_version
    stored,     \* fleet_clients.deployed_version of every client
    dtask,      \* the _execute_deployment task: the operation it is about to do
    push,       \* the _deploy_single_client coroutines of the running gather
    active,     \* RollingDeployer._active holds the deployment's id
    cancel,     \* the cancel_deployment call in flight
    rb_logged,  \* clients with a "rollback failed for client" log line
    rb_pushed,  \* clients the deploy script was re-invoked for by _rollback
    clients,    \* fleet_clients rows: status, last_seen, host, api_port
    wrows,      \* fleet_workloads rows: <<client name, workload name>>
    hb,         \* the upsert_heartbeat call in flight of every client
    sclock,     \* the central server's clock
    ret         \* the store call that committed in the last step, its result

nodeVars ==
    <<phase, files, registry, runners, rn, entries, now, calls, reply, rl,
      reloads, version_file, deployed_version, payload>>

hbVars == <<version_file, deployed_version, payload>>
deployVars ==
    <<deployment, dep_clients, stored, dtask, push, active, cancel, rb_logged,
      rb_pushed>>
storeVars == <<clients, wrows, hb, sclock, ret>>
fleetVars == <<deployVars, storeVars>>

VARIABLES
    libcall     \* the last call made to a function whose result depends on
                \* its arguments only: the function, the arguments, the result
  , sched_task  \* a ScheduleManager used on its own: its loop task (_task)
  , gate        \* a _wait_for_health call on its own: where it is, its locals
  , reaper      \* the central server's check_stale task: where it is, and the
                \* warnings it has logged

libVars == <<libcall, sched_task, gate, reaper>>

(***************************************************************************)
(* models/workload.py                                                      *)
(***************************************************************************)
RunMode == {"schedule", "forever", "n_times"}

WorkloadStatus ==
    {"registered", "starting", "running", "stopping", "stopped", "failed",
     "completed"}

\* the specs a config file can define for the name n; max_runs = 0 stands
\* for None
SpecsOf(n) ==
    {[name |-> n, run_mode |-> "forever", max_runs |-> 0, schedule |-> "None"],
     [name |-> n, run_mode |-> "schedule", max_runs |-> 0, schedule |-> "cron"]}
    \cup {[name |-> n, run_mode |-> "n_times", max_runs |-> m,
            schedule |-> "None"] : m \in 1..MaxRuns}

WorkloadSpec == UNION {SpecsOf(n) : n \in Names}

NoSpec ==
    [name |-> "-", run_mode |-> "none", max_runs |-> 0, schedule |-> "None"]

ExitCodes == {0, 1, -9}

(***************************************************************************)
(* engine/modes.py                                                         *)
(***************************************************************************)
OrNone(max_runs) == max_runs

\* spec.max_runs or 1
OrOne(max_runs) == IF max_runs = 0 THEN 1 ELSE max_runs

\* should_restart of a strategy that never restarts
should_restart_never(spec, run_count, exit_code) == FALSE

should_restart(spec, run_count, exit_code) ==
    CASE spec.run_mode = "forever" -> TRUE
      [] spec.run_mode = "n_times" -> run_count < OrOne(spec.max_runs)
      [] OTHER -> FALSE

is_complete(spec, run_count) ==
    CASE spec.run_mode = "forever" -> FALSE
      [] spec.run_mode = "n_times" -> run_count >= OrOne(spec.max_runs)
      [] OTHER -> TRUE

(***************************************************************************)
(* engine/runner.py: one WorkloadRunner object.                            *)
(*   process: self._process, "None" or "set"                               *)
(*   child:   the operating-system state of the child last launched by     *)
(*            this runner: "none", "alive", "exited" (reaped, returncode   *)
(*            set)                                                         *)
(*   task:    where self._supervise_task is suspended: "none" (never       *)
(*            created), "launch", "record_start", "wait", "record_finish", *)
(*            "sleep", "done"                                              *)
(*   pid:     0 stands for None, 1 for the pid of the last child           *)
(*   started, finished: the rows of run_history this runner has appended,  *)
(*            and those of them whose finished_at and exit_code are set    *)
(***************************************************************************)
NoRunner ==
    [spec |-> NoSpec, status |-> "registered", pid |-> 0, run_count |-> 0,
     stop_requested |-> FALSE, process |-> "None", child |-> "none",
     task |-> "none", started |-> 0, finished |-> 0]

NewRunner(spec) == [NoRunner EXCEPT !.spec = spec]

Exists(R) == R.spec # NoSpec

is_running(R) == R.status \in {"running", "starting"}

TaskLive(R) == R.task \notin {"none", "done"}

\* run_count += 1; the code compares run_count with max_runs only, and the
\* model stops counting at max_runs + 1
Bump(R) ==
    IF R.run_count <= OrOne(R.spec.max_runs) THEN R.run_count + 1
    ELSE R.run_count

\* the runner's rows in run_history: k of them, one more; counted as far as
\* run_count is
OneMore(R, k) == IF k <= OrOne(R.spec.max_runs) THEN k + 1 ELSE k

\* record_start() has returned: its INSERT is in the table (repository.py
\* lines 26-31)
RecordStart(R) == [R EXCEPT !.started = OneMore(R, R.started)]

\* record_finish() has returned: finished_at and exit_code of the run's row
\* are set (repository.py lines 37-46)
RecordFinish(R) == [R EXCEPT !.finished = OneMore(R, R.finished)]

\* A runner object lives as long as something can still reach or change it:
\* the runner map, a handler holding it in a local variable, its supervision
\* task, its child.  Otherwise its slot is free again.
Reachable(R, r, RUNNERS, CALLS) ==
    \/ \E n \in Names : RUNNERS[n] = r
    \/ \E c \in CIDs : CALLS[c].rid = r
    \/ TaskLive(R)
    \/ R.child = "alive"

Collect(RN, RUNNERS, CALLS) ==
    [r \in RIDs |-> IF Reachable(RN[r], r, RUNNERS, CALLS) THEN RN[r]
                    ELSE NoRunner]

runner_start_unchecked(R) ==
    [R EXCEPT !.stop_requested = FALSE, !.status = "starting",
              !.task = "launch"]

\* start(): lines 50-56
runner_start(R) ==
    IF is_running(R) THEN R
    ELSE [R EXCEPT !.stop_requested = FALSE, !.status = "starting",
                   !.task = "launch"]

\* stop(): lines 60-61
StopHead(R) == [R EXCEPT !.stop_requested = TRUE, !.status = "stopping"]

\* stop(): the condition of line 63
MustWaitProcess(R) == R.process = "set" /\ R.child = "alive"

\* task.cancel() on a suspended supervision task: CancelledError is raised at
\* its await, "except CancelledError: pass", "finally: self._process = None".
\* A repository call cancelled before it returns has written nothing.
CancelTask(R) == [R EXCEPT !.task = "done", !.process = "None"]

\* stop(): lines 79-81
StopTail(R) == [R EXCEPT !.status = "stopped", !.pid = 0]

\* stop() from line 72 on: either it suspends on the cancelled task
\* ("task_wait") or it runs to its end ("returned")
StopAfterProcess(R) ==
    IF TaskLive(R)
    THEN [r |-> CancelTask(R), pc |-> "task_wait"]
    ELSE [r |-> StopTail(R), pc |-> "returned"]

\* stop() from its first line to its first suspension
StopCall(R) ==
    LET X == StopHead(R)
    IN  IF MustWaitProcess(X) THEN [r |-> X, pc |-> "term_wait"]
        ELSE StopAfterProcess(X)

(***************************************************************************)
(* Handlers in flight: kind, the suspension point pc, the workload name    *)
(* and the runner the handler holds while it is inside stop().             *)
(***************************************************************************)
\* spec: the spec _start_workload has read from the registry (line 243)
Idle ==
    [kind |-> "idle", pc |-> "idle", name |-> "-", rid |-> 0, text |-> "-",
     spec |-> NoSpec]

\* the four lists reload_configs returns
NoChanges == [added |-> {}, removed |-> {}, restarted |-> {}, unchanged |-> {}]

NoReply == [kind |-> "none", name |-> "-", text |-> "-", changes |-> NoChanges]

\* no payload has been built
NoPayload ==
    [client_name |-> "-", deployed_version |-> "null",
     workloads |-> [n \in Names |-> [status |-> "none", pid |-> 0,
                                     run_count |-> 0]]]

\* no reload_configs call is in flight.  Of a call in flight: new is
\* new_specs_by_name, old the registry as the call found it (old_names are
\* its names), loop the loop the call is in ("removed", "added", "common"),
\* todo the names that loop has not finished, restarted and unchanged the
\* lists of those names
NoReload ==
    [busy |-> FALSE, new |-> [n \in Names |-> NoSpec],
     old |-> [n \in Names |-> NoSpec], loop |-> "-", todo |-> <<>>,
     restarted |-> {}, unchanged |-> {}]

\* the handlers still in flight after a step, and the reply of the one that
\* ended in it
Settle(CALLS) == [c \in CIDs |-> IF CALLS[c].pc = "done" THEN Idle ELSE CALLS[c]]

Out(CALLS) ==
    IF \E c \in CIDs : CALLS[c].pc = "done"
    THEN LET c == CHOOSE d \in CIDs : CALLS[d].pc = "done"
         IN  [kind |-> CALLS[c].kind, name |-> CALLS[c].name,
              text |-> CALLS[c].text, changes |-> NoChanges]
    ELSE NoReply

(***************************************************************************)
(* engine/runner.py: _supervise, one action per atomic section.            *)
(***************************************************************************)
\* lines 125-138: _launch_process() has returned; suspends in record_start
SupLaunched(r) ==
    /\ rn[r].task = "launch"
    /\ rn' = Collect([rn EXCEPT ![r] =
                        [@ EXCEPT !.process = "set", !.child = "alive",
                                  !.status = "running", !.pid = 1,
                                  !.run_count = Bump(rn[r]),
                                  !.task = "record_start"]],
                     runners, calls)
    /\ reply' = NoReply
    /\ UNCHANGED <<phase, registry, runners, entries, now, calls>>
    /\ UNCHANGED <<files, rl, reloads>>
    /\ UNCHANGED hbVars
    /\ UNCHANGED <<fleetVars, libVars>>

\* lines 138-149: record_start() has returned; suspends in process.wait()
SupRecordStart(r) ==
    /\ rn[r].task = "record_start"
    /\ rn' = Collect([rn EXCEPT ![r] = [RecordStart(@) EXCEPT !.task = "wait"]],
                     runners, calls)
    /\ reply' = NoReply
    /\ UNCHANGED <<phase, registry, runners, entries, now, calls>>
    /\ UNCHANGED <<files, rl, reloads>>
    /\ UNCHANGED hbVars
    /\ UNCHANGED <<fleetVars, libVars>>

\* The child ends: by itself with any exit code, by the SIGTERM or SIGKILL of
\* stop(), or by the kill of the loop's own timeout (lines 150-157).
ChildExit(r) ==
    /\ rn[r].child = "alive"
    /\ rn' = Collect([rn EXCEPT ![r].child = "exited"], runners, calls)
    /\ reply' = NoReply
    /\ UNCHANGED <<phase, registry, runners, entries, now, calls>>
    /\ UNCHANGED <<files, rl, reloads>>
    /\ UNCHANGED hbVars
    /\ UNCHANGED <<fleetVars, libVars>>

\* lines 149-179: process.wait() has returned; suspends in stderr.read() or
\* record_finish()
SupExit(r) ==
    /\ rn[r].task = "wait"
    /\ rn[r].child = "exited"
    /\ rn' = Collect([rn EXCEPT ![r].task = "record_finish"], runners, calls)
    /\ reply' = NoReply
    /\ UNCHANGED <<phase, registry, runners, entries, now, calls>>
    /\ UNCHANGED <<files, rl, reloads>>
    /\ UNCHANGED hbVars
    /\ UNCHANGED <<fleetVars, libVars>>

\* lines 181-199 and 207, as a function of the runner and the exit code
AfterFinish(R, exit_code) ==
    IF R.stop_requested
    THEN [R EXCEPT !.task = "done", !.process = "None"]
    ELSE IF is_complete(R.spec, R.run_count)
    THEN [R EXCEPT !.status = "completed", !.task = "done",
                   !.process = "None"]
    ELSE IF should_restart(R.spec, R.run_count, exit_code)
    THEN [R EXCEPT !.task = "sleep"]
    ELSE [R EXCEPT !.task = "done", !.process = "None"]

\* record_finish() has returned
SupFinish(r) ==
    /\ rn[r].task = "record_finish"
    /\ \E exit_code \in ExitCodes :
          rn' = Collect([rn EXCEPT ![r] =
                            AfterFinish(RecordFinish(@), exit_code)],
                        runners, calls)
    /\ reply' = NoReply
    /\ UNCHANGED <<phase, registry, runners, entries, now, calls>>
    /\ UNCHANGED <<files, rl, reloads>>
    /\ UNCHANGED hbVars
    /\ UNCHANGED <<fleetVars, libVars>>

\* line 197 then line 124: the restart delay is over, the loop condition is
\* evaluated and _launch_process() is awaited
AfterSleep(R) ==
    IF R.stop_requested
    THEN [R EXCEPT !.task = "done", !.process = "None"]
    ELSE [R EXCEPT !.task = "launch"]

SupSleepDone(r) ==
    /\ rn[r].task = "sleep"
    /\ rn' = Collect([rn EXCEPT ![r] = AfterSleep(@)], runners, calls)
    /\ reply' = NoReply
    /\ UNCHANGED <<phase, registry, runners, entries, now, calls>>
    /\ UNCHANGED <<files, rl, reloads>>
    /\ UNCHANGED hbVars
    /\ UNCHANGED <<fleetVars, libVars>>

\* an exception handler that ends the loop and leaves the status as it is
SupRaiseSilent(r) ==
    /\ rn[r].task \in {"launch", "record_start", "record_finish"}
    /\ rn' = Collect([rn EXCEPT ![r] =
                [@ EXCEPT !.task = "done", !.process = "None"]], runners, calls)
    /\ reply' = NoReply
    /\ UNCHANGED <<phase, registry, runners, entries, now, calls>>
    /\ UNCHANGED <<files, rl, reloads>>
    /\ UNCHANGED hbVars
    /\ UNCHANGED <<fleetVars, libVars>>

\* lines 203-207: create_subprocess_exec, record_start or record_finish raises;
\* a child launched before the exception keeps running
SupRaise(r) ==
    /\ rn[r].task \in {"launch", "record_start", "record_finish"}
    /\ rn' = Collect([rn EXCEPT ![r] =
                [@ EXCEPT !.status = "failed", !.task = "done",
                          !.process = "None"]], runners, calls)
    /\ reply' = NoReply
    /\ UNCHANGED <<phase, registry, runners, entries, now, calls>>
    /\ UNCHANGED <<files, rl, reloads>>
    /\ UNCHANGED hbVars
    /\ UNCHANGED <<fleetVars, libVars>>

(***************************************************************************)
(* engine/scheduler.py                                                     *)
(***************************************************************************)
NoEntry == 0 - 1

\* croniter.get_next: the first cron match strictly after t
\* croniter.is_valid(cron_expr), line 50
is_valid(cron_expr) == cron_expr = "cron"

\* ScheduleManager.add raises ValueError for this spec (lines 50-51)
Rejected(spec) == spec.run_mode = "schedule" /\ ~is_valid(spec.schedule)

CronNext(t) == ((t \div CronPeriod) + 1) * CronPeriod

\* ScheduleEntry.advance(): one get_next from the iterator's position, which
\* is the previous next_run
advance(next_run) == CronNext(next_run)

(***************************************************************************)
(* engine/orchestrator.py                                                  *)
(***************************************************************************)
HasFree == \E r \in RIDs : ~Exists(rn[r])

FreeIn(RN) ==
    CHOOSE r \in RIDs : ~Exists(RN[r]) /\ \A q \in 1..(r - 1) : Exists(RN[q])

LowestIdle(c) ==
    /\ calls[c].kind = "idle"
    /\ \A d \in 1..(c - 1) : calls[d].kind # "idle"

\* the handler's local reference to the runner is dead from here on
Reply(call, text) ==
    [call EXCEPT !.pc = "done", !.rid = 0, !.text = text, !.spec = NoSpec]

\* start_workload lines 135-139 and _start_workload lines 243-252, up to the
\* await of save_state; RN is the runners' state at that moment
StartCheck(call, RN) ==
    LET n == call.name
    IN  IF registry[n] = NoSpec THEN Reply(call, "Unknown workload")
        ELSE IF runners[n] # 0 /\ is_running(RN[runners[n]])
        THEN Reply(call, "already running")
        ELSE [call EXCEPT !.pc = "save_state", !.rid = 0, !.spec = registry[n]]

\* what the caller of a finished stop() does next
AfterStop(call, RN) ==
    CASE call.kind = "stop" -> Reply(call, "Stopped")
      [] call.kind = "restart" -> StartCheck(call, RN)
      [] OTHER -> Reply(call, "returned")

\* the position of name n in NameSeq
Index(n) == CHOOSE i \in 1..Len(NameSeq) : NameSeq[i] = n

\* the valid contents of the config directory: for every name a spec or no
\* file (NoSpec)
Configs ==
    {cfg \in [Names -> WorkloadSpec \cup {NoSpec}] :
        \A n \in Names : cfg[n] \in SpecsOf(n) \cup {NoSpec}}

\* the runner object Orchestrator.start() creates for name n: the objects
\* are numbered in the order of their creation
BootRunner(cfg, n) ==
    IF cfg[n] = NoSpec THEN 0
    ELSE Cardinality({m \in Names : Index(m) <= Index(n) /\ cfg[m] # NoSpec})

\* Orchestrator.start() with the directory content cfg: register the loaded
\* specs, _start_workload for each
Boot(cfg) ==
    /\ phase = "constructed"
    /\ \A n \in Names : BootRunner(cfg, n) <= MaxRunners
    /\ files' = cfg
    /\ registry' = cfg
    /\ runners' = [n \in Names |-> BootRunner(cfg, n)]
    /\ rn' = [r \in RIDs |->
                IF \E n \in Names : BootRunner(cfg, n) = r
                THEN LET n == CHOOSE m \in Names : BootRunner(cfg, m) = r
                     IN  IF cfg[n].run_mode = "schedule" THEN NewRunner(cfg[n])
                         ELSE runner_start(NewRunner(cfg[n]))
                ELSE NoRunner]
    /\ entries' = [n \in Names |->
                    IF cfg[n].run_mode = "schedule" THEN CronNext(now)
                    ELSE NoEntry]
    /\ phase' = "serving"
    /\ reply' = NoReply
    /\ deployed_version' = version_file
    /\ UNCHANGED <<now, calls, rl, reloads, version_file, payload>>
    /\ UNCHANGED <<fleetVars, libVars>>

\* "start" command: start_workload up to its first suspension
CmdStart(c, n) ==
    /\ phase = "serving"
    /\ LowestIdle(c)
    /\ LET CALLS == [calls EXCEPT ![c] =
                       StartCheck([Idle EXCEPT !.kind = "start", !.name = n],
                                  rn)]
       IN  /\ calls' = Settle(CALLS)
           /\ reply' = Out(CALLS)
    /\ UNCHANGED <<phase, registry, runners, rn, entries, now>>
    /\ UNCHANGED <<files, rl, reloads>>
    /\ UNCHANGED hbVars
    /\ UNCHANGED <<fleetVars, libVars>>

\* _start_workload lines 254-266 after save_state() has returned, then the
\* reply of start_workload
StartFinish(c) ==
    /\ calls[c].pc = "save_state"
    /\ calls[c].kind # "reload"
    /\ HasFree
    /\ LET n == calls[c].name
           r == FreeIn(rn)
           spec == calls[c].spec
           RUNNERS == [runners EXCEPT ![n] = r]
           CALLS == [calls EXCEPT ![c] =
                       Reply(@, IF Rejected(spec) THEN "ValueError"
                                ELSE "Started")]
       IN  /\ runners' = RUNNERS
           /\ calls' = Settle(CALLS)
           /\ reply' = Out(CALLS)
           /\ IF spec.run_mode = "schedule"
              THEN /\ rn' = Collect([rn EXCEPT ![r] = NewRunner(spec)],
                                    RUNNERS, Settle(CALLS))
                   /\ entries' = IF Rejected(spec) THEN entries
                                 ELSE [entries EXCEPT ![n] = CronNext(now)]
              ELSE /\ rn' = Collect([rn EXCEPT ![r] =
                                       runner_start(NewRunner(spec))],
                                    RUNNERS, Settle(CALLS))
                   /\ UNCHANGED entries
    /\ UNCHANGED <<phase, registry, now>>
    /\ UNCHANGED <<files, rl, reloads>>
    /\ UNCHANGED hbVars
    /\ UNCHANGED <<fleetVars, libVars>>

\* stop_workload lines 144-147 (and, for kind "restart", restart_workload):
\* the check, then stop() up to its first suspension
StopCommand(c, n, kind) ==
    LET call == [Idle EXCEPT !.kind = kind, !.name = n]
        r == runners[n]
    IN  IF r = 0 \/ ~is_running(rn[r])
        THEN LET CALLS == [calls EXCEPT ![c] =
                             IF kind = "stop" THEN Reply(call, "not running")
                             ELSE StartCheck(call, rn)]
             IN  /\ calls' = Settle(CALLS)
                 /\ reply' = Out(CALLS)
                 /\ UNCHANGED rn
        ELSE LET s == StopCall(rn[r])
                 RN == [rn EXCEPT ![r] = s.r]
                 CALLS == [calls EXCEPT ![c] =
                             IF s.pc = "returned"
                             THEN AfterStop([call EXCEPT !.rid = r], RN)
                             ELSE [call EXCEPT !.pc = s.pc, !.rid = r]]
             IN  /\ rn' = Collect(RN, runners, Settle(CALLS))
                 /\ calls' = Settle(CALLS)
                 /\ reply' = Out(CALLS)

CmdStop(c, n) ==
    /\ phase = "serving"
    /\ LowestIdle(c)
    /\ StopCommand(c, n, "stop")
    /\ UNCHANGED <<phase, registry, runners, entries, now>>
    /\ UNCHANGED <<files, rl, reloads>>
    /\ UNCHANGED hbVars
    /\ UNCHANGED <<fleetVars, libVars>>

CmdRestart(c, n) ==
    /\ phase = "serving"
    /\ LowestIdle(c)
    /\ StopCommand(c, n, "restart")
    /\ UNCHANGED <<phase, registry, runners, entries, now>>
    /\ UNCHANGED <<files, rl, reloads>>
    /\ UNCHANGED hbVars
    /\ UNCHANGED <<fleetVars, libVars>>

\* runner.py line 66: process.wait() has returned inside stop()
StopProcessExited(c) ==
    /\ calls[c].pc \in {"term_wait", "kill_wait"}
    /\ calls[c].kind # "reload"
    /\ LET r == calls[c].rid
           s == StopAfterProcess(rn[r])
           RN == [rn EXCEPT ![r] = s.r]
           CALLS == [calls EXCEPT ![c] =
                       IF s.pc = "returned" THEN AfterStop(@, RN)
                       ELSE [@ EXCEPT !.pc = s.pc]]
       IN  /\ rn[r].child # "alive"
           /\ rn' = Collect(RN, runners, Settle(CALLS))
           /\ calls' = Settle(CALLS)
           /\ reply' = Out(CALLS)
    /\ UNCHANGED <<phase, registry, runners, entries, now>>
    /\ UNCHANGED <<files, rl, reloads>>
    /\ UNCHANGED hbVars
    /\ UNCHANGED <<fleetVars, libVars>>

\* runner.py lines 67-70: the timeout of stop() expires, self._process.kill()
\* (an AttributeError when the supervision task has set _process to None)
StopTimeout(c) ==
    /\ calls[c].pc = "term_wait"
    /\ calls[c].kind # "reload"
    /\ rn[calls[c].rid].child = "alive"
    /\ LET CALLS == [calls EXCEPT ![c] =
                       IF rn[calls[c].rid].process = "None"
                       THEN Reply(@, "error")
                       ELSE [@ EXCEPT !.pc = "kill_wait"]]
       IN  /\ calls' = Settle(CALLS)
           /\ reply' = Out(CALLS)
           /\ rn' = Collect(rn, runners, Settle(CALLS))
    /\ UNCHANGED <<phase, registry, runners, entries, now>>
    /\ UNCHANGED <<files, rl, reloads>>
    /\ UNCHANGED hbVars
    /\ UNCHANGED <<fleetVars, libVars>>

\* runner.py lines 75-81: the cancelled supervision task has ended
StopTaskDone(c) ==
    /\ calls[c].pc = "task_wait"
    /\ calls[c].kind # "reload"
    /\ LET r == calls[c].rid
           RN == [rn EXCEPT ![r] = StopTail(@)]
           CALLS == [calls EXCEPT ![c] = AfterStop(@, RN)]
       IN  /\ rn' = Collect(RN, runners, Settle(CALLS))
           /\ calls' = Settle(CALLS)
           /\ reply' = Out(CALLS)
    /\ UNCHANGED <<phase, registry, runners, entries, now>>
    /\ UNCHANGED <<files, rl, reloads>>
    /\ UNCHANGED hbVars
    /\ UNCHANGED <<fleetVars, libVars>>

\* shutdown lines 106-120: the fleet services, the IPC server, the health
\* checker and the scheduler are stopped; no new command is accepted
ShutdownBegin ==
    /\ phase = "serving"
    /\ phase' = "closing"
    /\ reply' = NoReply
    /\ UNCHANGED <<registry, runners, rn, entries, now, calls>>
    /\ UNCHANGED <<files, rl, reloads>>
    /\ UNCHANGED hbVars
    /\ UNCHANGED <<fleetVars, libVars>>

\* shutdown lines 123-125: stop() of the runner held in the runner map, up to
\* its first suspension (a runner map that holds one runner, that of n)
ShutdownStop(c, n) ==
    /\ phase = "closing"
    /\ LowestIdle(c)
    /\ \A m \in Names \ {n} : runners[m] = 0
    /\ phase' = "down"
    /\ LET r == runners[n]
           call == [Idle EXCEPT !.kind = "shutdown", !.name = n, !.rid = r]
           s == StopCall(rn[r])
       IN  IF r = 0 THEN reply' = NoReply /\ UNCHANGED <<rn, calls>>
           ELSE LET CALLS == [calls EXCEPT ![c] =
                                 IF s.pc = "returned"
                                 THEN Reply(call, "returned")
                                 ELSE [call EXCEPT !.pc = s.pc]]
                IN  /\ rn' = Collect([rn EXCEPT ![r] = s.r], runners, Settle(CALLS))
                    /\ calls' = Settle(CALLS)
                    /\ reply' = Out(CALLS)
    /\ UNCHANGED <<registry, runners, entries, now>>
    /\ UNCHANGED <<files, rl, reloads>>
    /\ UNCHANGED hbVars
    /\ UNCHANGED <<fleetVars, libVars>>

(***************************************************************************)
(* health/checks.py                                                        *)
(***************************************************************************)
\* os.kill(pid, 0) finds the process of the runner's last child
is_process_alive(R) == R.child = "alive"

\* _check_all lines 105-119 on one WorkloadState
CheckOne(R) ==
    IF R.status # "running" THEN R
    ELSE IF R.pid = 0 THEN R
    ELSE IF ~is_process_alive(R) THEN [R EXCEPT !.status = "failed"]
    ELSE R

\* the states list_workloads() returns: the runners of the registered names
Listed(r) == \E n \in Names : registry[n] # NoSpec /\ runners[n] = r

HealthSweep ==
    /\ phase = "serving"
    /\ rn' = [r \in RIDs |-> IF Listed(r) THEN CheckOne(rn[r]) ELSE rn[r]]
    /\ reply' = NoReply
    /\ UNCHANGED <<phase, registry, runners, entries, now, calls>>
    /\ UNCHANGED <<files, rl, reloads>>
    /\ UNCHANGED hbVars
    /\ UNCHANGED <<fleetVars, libVars>>

(***************************************************************************)
(* engine/scheduler.py: one iteration of ScheduleManager._run, with the    *)
(* orchestrator's _run_scheduled as the callback of every entry.           *)
(***************************************************************************)
\* _run_scheduled without the check of lines 271-274
run_scheduled_unchecked(st, n) ==
    IF \A q \in RIDs : Exists(st.rn[q]) THEN [st EXCEPT !.ok = FALSE]
    ELSE LET q == FreeIn(st.rn)
         IN  [st EXCEPT !.runners[n] = q,
                        !.rn[q] = runner_start(NewRunner(registry[n]))]

\* _run_scheduled lines 270-277 on the state st = [rn, runners, ok]
run_scheduled(st, n) ==
    LET r == st.runners[n]
    IN  IF r # 0 /\ is_running(st.rn[r]) THEN st
        ELSE IF \A q \in RIDs : Exists(st.rn[q]) THEN [st EXCEPT !.ok = FALSE]
        ELSE LET q == FreeIn(st.rn)
             IN  [st EXCEPT !.runners[n] = q,
                            !.rn[q] = runner_start(NewRunner(registry[n]))]

\* lines 86-94 for one entry at clock t; st also carries the entries
TickEntry(st, n, t) ==
    IF st.entries[n] = NoEntry \/ t < st.entries[n] THEN st
    ELSE LET s2 == run_scheduled(st, n)
         IN  [s2 EXCEPT !.entries[n] = advance(st.entries[n])]

RECURSIVE TickFrom(_, _, _)
TickFrom(st, i, t) ==
    IF i > Len(NameSeq) THEN st
    ELSE TickFrom(TickEntry(st, NameSeq[i], t), i + 1, t)

\* the loop wakes from sleep(1.0) and reads the clock: t
SchedTick(t) ==
    /\ phase = "serving"
    /\ \E n \in Names : entries[n] # NoEntry
    /\ t > now
    /\ LET st == TickFrom([rn |-> rn, runners |-> runners, entries |-> entries,
                           ok |-> TRUE], 1, t)
       IN  /\ st.ok
           /\ rn' = Collect(st.rn, st.runners, calls)
           /\ runners' = st.runners
           /\ entries' = st.entries
    /\ now' = t
    /\ reply' = NoReply
    /\ UNCHANGED <<phase, registry, calls>>
    /\ UNCHANGED <<files, rl, reloads>>
    /\ UNCHANGED hbVars
    /\ UNCHANGED <<fleetVars, libVars>>

(***************************************************************************)
(* config/loader.py and Orchestrator.reload_configs.  One reload is in     *)
(* flight at a time; its handler suspends inside runner.stop() and at the  *)
(* save_state() of _start_workload.                                        *)
(***************************************************************************)
\* a file that fails to parse or to validate
BadFile ==
    [name |-> "-", run_mode |-> "invalid", max_runs |-> 0, schedule |-> "None"]

\* a schedule-mode file that loads (the schema asks for a schedule string and
\* nothing more) and whose string is no cron expression
BadCron(n) ==
    [name |-> n, run_mode |-> "schedule", max_runs |-> 0,
     schedule |-> "not a cron"]

\* the config directory when a file can hold such a schedule
CronDirectories ==
    {f \in [Names -> WorkloadSpec \cup {NoSpec} \cup {BadCron(n) : n \in Names}] :
        \A n \in Names : f[n] \in SpecsOf(n) \cup {NoSpec, BadCron(n)}}

\* what the config directory can hold: for every name a valid file, no file
\* or an invalid file
Directories ==
    {f \in [Names -> WorkloadSpec \cup {NoSpec, BadFile}] :
        \A n \in Names : f[n] \in SpecsOf(n) \cup {NoSpec, BadFile}}

NoSpecs == [n \in Names |-> NoSpec]

load_all_skipping(f) ==
    [ok |-> TRUE,
     specs |-> [n \in Names |-> IF f[n] = BadFile THEN NoSpec ELSE f[n]]]

\* ConfigLoader.load_all: load_file raises ConfigError on the first invalid
\* file, otherwise the specs of all files
load_all(f) ==
    IF \E n \in Names : f[n] = BadFile THEN [ok |-> FALSE, specs |-> NoSpecs]
    ELSE [ok |-> TRUE, specs |-> f]

CommonNone(L) == {}

\* sorted(S)
Sorted(S) == SelectSeq(NameSeq, LAMBDA n : n \in S)

AddedNone(L) == {}

\* lines 183-188 over the locals L of a reload
Added(L) == {n \in Names : L.new[n] # NoSpec /\ L.old[n] = NoSpec}

Removed(L) == {n \in Names : L.old[n] # NoSpec /\ L.new[n] = NoSpec}

Common(L) == {n \in Names : L.old[n] # NoSpec /\ L.new[n] # NoSpec}

\* lines 232-237
Result(L) ==
    [added |-> Added(L), removed |-> Removed(L), restarted |-> L.restarted,
     unchanged |-> L.unchanged]

\* reload_configs from the handler's position st.call.pc to its next
\* suspension or its return.  "run": at the head of the current loop;
\* "stopped": after lines 195-197 or 214-216; "saved": save_state() of
\* _start_workload has returned.  st carries the registry, the runner map,
\* the runners, the scheduler entries, the handler and its locals.
RECURSIVE reload_configs(_)
reload_configs(st) ==
    LET L == st.rl
        n == Head(L.todo)
        r == st.runners[n]
    IN  CASE st.call.pc = "run" /\ L.todo = <<>> ->
               IF L.loop = "removed"
               THEN reload_configs([st EXCEPT !.rl.loop = "added",
                                              !.rl.todo = Sorted(Added(L))])
               ELSE IF L.loop = "added"
               THEN reload_configs([st EXCEPT !.rl.loop = "common",
                                              !.rl.todo = Sorted(Common(L))])
               ELSE [st EXCEPT !.call.pc = "done", !.call.text = "returned"]
          [] st.call.pc = "run" /\ L.todo # <<>> /\ L.loop = "added" ->
               \* lines 205-206 and 243-252
               [st EXCEPT !.registry[n] = L.new[n],
                          !.call.pc = "save_state", !.call.name = n,
                          !.call.spec = L.new[n]]
          [] /\ st.call.pc = "run" /\ L.todo # <<>> /\ L.loop = "common"
             /\ st.registry[n] = L.new[n] ->
               \* lines 211-213 and 225
               reload_configs([st EXCEPT !.rl.unchanged = @ \cup {n},
                                         !.rl.todo = Tail(@)])
          [] /\ st.call.pc = "run" /\ L.todo # <<>>
             /\ \/ L.loop = "removed"
                \/ L.loop = "common" /\ st.registry[n] # L.new[n] ->
               \* lines 195-197 and 214-216
               IF r # 0 /\ is_running(st.rn[r])
               THEN LET s == StopCall(st.rn[r])
                    IN  IF s.pc = "returned"
                        THEN reload_configs([st EXCEPT !.rn[r] = s.r,
                                                       !.call.pc = "stopped",
                                                       !.call.name = n])
                        ELSE [st EXCEPT !.rn[r] = s.r, !.call.pc = s.pc,
                                        !.call.name = n, !.call.rid = r]
               ELSE reload_configs([st EXCEPT !.call.pc = "stopped",
                                              !.call.name = n])
          [] st.call.pc = "stopped" ->
               \* lines 198-200, and lines 217-221 up to save_state()
               LET popped == [st EXCEPT !.runners[n] = 0,
                                        !.entries[n] = NoEntry,
                                        !.registry[n] = NoSpec,
                                        !.call.rid = 0]
               IN  IF L.loop = "removed"
                   THEN reload_configs([popped EXCEPT !.call.pc = "run",
                                                      !.rl.todo = Tail(@)])
                   ELSE [popped EXCEPT !.registry[n] = L.new[n],
                                       !.call.pc = "save_state",
                                       !.call.spec = L.new[n]]
          [] st.call.pc = "saved" ->
               \* lines 254-266, then line 207 or lines 222-223
               LET q == FreeIn(st.rn)
                   spec == st.call.spec
                   made == IF spec.run_mode = "schedule"
                           THEN [st EXCEPT !.runners[n] = q,
                                           !.rn[q] = NewRunner(spec),
                                           !.entries[n] = CronNext(now)]
                           ELSE [st EXCEPT !.runners[n] = q,
                                           !.rn[q] =
                                               runner_start(NewRunner(spec))]
               IN  IF Rejected(spec)
                   THEN \* line 255, then add() raises out of reload_configs
                        [st EXCEPT !.runners[n] = q,
                                   !.rn[q] = NewRunner(spec),
                                   !.call.pc = "done",
                                   !.call.text = "ValueError"]
                   ELSE reload_configs(
                       [made EXCEPT !.call.pc = "run", !.call.spec = NoSpec,
                                    !.rl.todo = Tail(@),
                                    !.rl.restarted =
                                        IF L.loop = "common" THEN @ \cup {n}
                                        ELSE @])
          [] OTHER -> st

\* the node's state and the reload handler c as a record for reload_configs
Now(c) ==
    [registry |-> registry, runners |-> runners, rn |-> rn,
     entries |-> entries, call |-> calls[c], rl |-> rl]

\* the state after a step of the reload handler c that left it in st; a
\* handler that has ended ("done") replies and frees its slot
Reloaded(c, st) ==
    LET ended == st.call.pc = "done"
        CALLS == [calls EXCEPT ![c] = IF ended THEN Idle ELSE st.call]
    IN  /\ registry' = st.registry
        /\ runners' = st.runners
        /\ entries' = st.entries
        /\ calls' = CALLS
        /\ rn' = Collect(st.rn, st.runners, CALLS)
        /\ rl' = IF ended THEN NoReload ELSE st.rl
        /\ deployed_version' = IF ended /\ st.call.text = "returned"
                               THEN version_file ELSE deployed_version
        /\ reply' = IF ~ended THEN NoReply
                    ELSE [kind |-> "reload", name |-> "-",
                          text |-> st.call.text,
                          changes |-> IF st.call.text = "returned"
                                      THEN Result(st.rl) ELSE NoChanges]

\* the "reload" command while the directory holds f: lines 180-192, then the
\* loops up to the first suspension
ReloadCmd(c, f) ==
    /\ phase = "serving"
    /\ LowestIdle(c)
    /\ ~rl.busy
    /\ f # registry => reloads < MaxReloads
    /\ reloads' = IF f # registry THEN reloads + 1 ELSE reloads
    /\ files' = f
    /\ LET call == [Idle EXCEPT !.kind = "reload"]
           new_specs == load_all(f)
           L == [NoReload EXCEPT !.busy = TRUE, !.new = new_specs.specs,
                                 !.old = registry, !.loop = "removed"]
           st == [Now(c) EXCEPT !.call = [call EXCEPT !.pc = "run"],
                                !.rl = [L EXCEPT !.todo = Sorted(Removed(L))]]
       IN  IF new_specs.ok THEN Reloaded(c, reload_configs(st))
           ELSE Reloaded(c, [st EXCEPT !.call.pc = "done",
                                       !.call.text = "ConfigError"])
    /\ UNCHANGED <<phase, now, version_file, payload>>
    /\ UNCHANGED <<fleetVars, libVars>>

\* runner.py line 66 inside the reload's stop(): process.wait() has returned
ReloadProcessExited(c) ==
    /\ calls[c].kind = "reload"
    /\ calls[c].pc \in {"term_wait", "kill_wait"}
    /\ LET r == calls[c].rid
           s == StopAfterProcess(rn[r])
           st == [Now(c) EXCEPT !.rn[r] = s.r]
       IN  /\ rn[r].child # "alive"
           /\ IF s.pc = "returned"
              THEN Reloaded(c, reload_configs(
                                   [st EXCEPT !.call.pc = "stopped"]))
              ELSE Reloaded(c, [st EXCEPT !.call.pc = s.pc])
    /\ UNCHANGED <<phase, files, now, reloads, version_file, payload>>
    /\ UNCHANGED <<fleetVars, libVars>>

\* runner.py lines 67-70 inside the reload's stop(): the timeout expires (an
\* AttributeError ends reload_configs where it is)
ReloadTimeout(c) ==
    /\ calls[c].kind = "reload"
    /\ calls[c].pc = "term_wait"
    /\ rn[calls[c].rid].child = "alive"
    /\ IF rn[calls[c].rid].process = "None"
       THEN Reloaded(c, [Now(c) EXCEPT !.call.pc = "done",
                                       !.call.text = "error"])
       ELSE Reloaded(c, [Now(c) EXCEPT !.call.pc = "kill_wait"])
    /\ UNCHANGED <<phase, files, now, reloads, version_file, payload>>
    /\ UNCHANGED <<fleetVars, libVars>>

\* runner.py lines 75-81 inside the reload's stop(): the cancelled
\* supervision task has ended
ReloadTaskDone(c) ==
    /\ calls[c].kind = "reload"
    /\ calls[c].pc = "task_wait"
    /\ LET r == calls[c].rid
           st == [Now(c) EXCEPT !.rn[r] = StopTail(@),
                                !.call.pc = "stopped"]
       IN  Reloaded(c, reload_configs(st))
    /\ UNCHANGED <<phase, files, now, reloads, version_file, payload>>
    /\ UNCHANGED <<fleetVars, libVars>>

\* save_state() has returned inside the reload's _start_workload
ReloadSaved(c) ==
    /\ calls[c].kind = "reload"
    /\ calls[c].pc = "save_state"
    /\ HasFree
    /\ Reloaded(c, reload_configs([Now(c) EXCEPT !.call.pc = "saved"]))
    /\ UNCHANGED <<phase, files, now, reloads, version_file, payload>>
    /\ UNCHANGED <<fleetVars, libVars>>

(***************************************************************************)
(* fleet/heartbeat.py: HeartbeatReporter._build_payload on the node, and   *)
(* the deploy script that writes .mctl-version next to the config          *)
(* directory.                                                              *)
(***************************************************************************)
Versions == {"null", "v1"}

ClientName == "pi-1"

\* the WorkloadInfo of a name that is not registered
NoInfo == [status |-> "none", pid |-> 0, run_count |-> 0]

InfoOf(R) == [status |-> R.status, pid |-> R.pid, run_count |-> R.run_count]

\* Orchestrator.list_workloads: the runner's state, or the state of a
\* WorkloadState(spec=spec) for a registered name without a runner
list_workloads ==
    [n \in Names |->
        IF registry[n] = NoSpec THEN NoInfo
        ELSE IF runners[n] # 0 THEN InfoOf(rn[runners[n]])
        ELSE InfoOf(NoRunner)]

\* HeartbeatPayload's default for a field the constructor call leaves out
PayloadDefault == "null"

\* _build_payload lines 86-103: deployed_version is not among the arguments
build_payload ==
    [client_name |-> ClientName, deployed_version |-> PayloadDefault,
     workloads |-> list_workloads]

BuildPayload ==
    /\ phase = "serving"
    /\ payload' = build_payload
    /\ reply' = NoReply
    /\ UNCHANGED <<phase, registry, runners, rn, entries, now, calls>>
    /\ UNCHANGED <<files, rl, reloads, version_file, deployed_version>>
    /\ UNCHANGED <<fleetVars, libVars>>

\* the deploy script leaves version v in .mctl-version
WriteVersion(v) ==
    /\ version_file # v
    /\ version_file' = v
    /\ reply' = NoReply
    /\ UNCHANGED <<phase, registry, runners, rn, entries, now, calls>>
    /\ UNCHANGED <<files, rl, reloads, deployed_version, payload>>
    /\ UNCHANGED <<fleetVars, libVars>>

(***************************************************************************)
(* config/registry.py: WorkloadRegistry called directly.  A call is        *)
(* recorded with its name and spec arguments (NoSpec: none) and with the   *)
(* exception it raised ("null": none) and the value it returned.           *)
(***************************************************************************)
RegistryCall(fn, name, spec, error, value) ==
    [fn |-> fn, args |-> [name |-> name, spec |-> spec],
     out |-> [error |-> error, value |-> value]]

\* register lines 14-17 on the contents reg
register(reg, spec) ==
    IF reg[spec.name] # NoSpec THEN [error |-> "ValueError", reg |-> reg]
    ELSE [error |-> "null", reg |-> [reg EXCEPT ![spec.name] = spec]]

unregister_any(reg, name) ==
    [error |-> "null", reg |-> [m \in Names |-> NoSpec]]

\* unregister lines 20-23
unregister(reg, name) ==
    IF reg[name] = NoSpec THEN [error |-> "KeyError", reg |-> reg]
    ELSE [error |-> "null", reg |-> [reg EXCEPT ![name] = NoSpec]]

Register(spec) ==
    /\ registry' = register(registry, spec).reg
    /\ libcall' = RegistryCall("register", spec.name, spec,
                               register(registry, spec).error, NoSpec)
    /\ UNCHANGED <<phase, files, runners, rn, entries, now, calls, reply, rl,
                   reloads, hbVars, fleetVars, sched_task, gate, reaper>>

Unregister(name) ==
    /\ registry' = unregister(registry, name).reg
    /\ libcall' = RegistryCall("unregister", name, NoSpec,
                               unregister(registry, name).error, NoSpec)
    /\ UNCHANGED <<phase, files, runners, rn, entries, now, calls, reply, rl,
                   reloads, hbVars, fleetVars, sched_task, gate, reaper>>

\* get lines 26-29
Get(name) ==
    /\ libcall' = IF registry[name] = NoSpec
                  THEN RegistryCall("get", name, NoSpec, "KeyError", NoSpec)
                  ELSE RegistryCall("get", name, NoSpec, "null",
                                    registry[name])
    /\ UNCHANGED <<phase, files, registry, runners, rn, entries, now, calls,
                   reply, rl, reloads, hbVars, fleetVars, sched_task, gate, reaper>>

(***************************************************************************)
(* engine/modes.py called directly: get_strategy for a run-mode tag, then  *)
(* both methods of the strategy.                                           *)
(***************************************************************************)
\* the tags get_strategy can be given; "once" is not a run mode
RunModeTags == RunMode \cup {"once"}

\* get_strategy lines 47-54: the strategy, named by its tag
get_strategy(run_mode) ==
    IF run_mode \in {"forever", "n_times", "schedule"}
    THEN [error |-> "null", strategy |-> run_mode]
    ELSE [error |-> "ValueError", strategy |-> "-"]

\* the answers of the strategy selected for the tag
StrategyAnswers(run_mode, max_runs, run_count, exit_code) ==
    LET spec == [name |-> NameSeq[1], run_mode |-> run_mode,
                 max_runs |-> max_runs, schedule |-> "None"]
    IN  IF get_strategy(run_mode).error # "null"
        THEN [error |-> get_strategy(run_mode).error,
              should_restart |-> FALSE, is_complete |-> FALSE]
        ELSE [error |-> "null",
              should_restart |-> should_restart(spec, run_count, exit_code),
              is_complete |-> is_complete(spec, run_count)]

AskStrategy(run_mode, max_runs, run_count, exit_code) ==
    /\ libcall' =
          [fn |-> "get_strategy",
           args |-> [run_mode |-> run_mode, max_runs |-> max_runs,
                     run_count |-> run_count, exit_code |-> exit_code],
           out |-> StrategyAnswers(run_mode, max_runs, run_count, exit_code)]
    /\ UNCHANGED <<nodeVars, fleetVars, sched_task, gate, reaper>>

(***************************************************************************)
(* health/checks.py: _check_all over any list of WorkloadState objects, on *)
(* any process table (tests/unit/test_health.py).                          *)
(***************************************************************************)
\* pids a state can hold (0: None) and the pids of the process table
Pids == 1..2

\* last_error: None, what the runner left there, what the sweep writes
NoError == <<>>
ExitError == <<"Exit code", 1>>
NotFound(pid) == <<"Process", pid, "not found">>

\* the fields of WorkloadState the sweep reads or writes; memory_limit_mb
\* 0 is None
States ==
    [status : WorkloadStatus, pid : {0} \cup Pids,
     last_error : {NoError, ExitError}, memory_limit_mb : 0..1]

StateLists == UNION {[1..k -> States] : k \in 1..2}

\* lines 107-119 without the test of line 107
check_state_any_status(S, alive) ==
    IF S.pid = 0 THEN S
    ELSE IF S.pid \notin alive
         THEN [S EXCEPT !.status = "failed", !.last_error = NotFound(S.pid)]
    ELSE S

\* lines 107-122 on one state; alive: the pids os.kill(pid, 0) finds.
\* _check_memory_usage (lines 125-143) only logs.
check_state(S, alive) ==
    IF S.status # "running" THEN S
    ELSE IF S.pid = 0 THEN S
    ELSE IF S.pid \notin alive
         THEN [S EXCEPT !.status = "failed", !.last_error = NotFound(S.pid)]
    ELSE S

\* _check_all lines 105-122
CheckAll(states, alive) ==
    /\ libcall' = [fn |-> "_check_all",
                   args |-> [states |-> states, alive |-> alive],
                   out |-> [i \in 1..Len(states) |->
                              check_state(states[i], alive)]]
    /\ UNCHANGED <<nodeVars, fleetVars, sched_task, gate, reaper>>

(***************************************************************************)
(* engine/scheduler.py: a ScheduleManager on its own, its entries given    *)
(* callbacks that return or raise as they please.                          *)
(***************************************************************************)
\* how one "await entry.callback()" ends: it returns, or it raises an
\* Exception
CallbackOutcomes == {"returned", "raised"}

\* lines 86-94 without the try of lines 88-93: the exception leaves the loop
loop_entry_unguarded(st, n, t, outcome) ==
    IF ~st.running \/ st.entries[n] = NoEntry \/ t < st.entries[n] THEN st
    ELSE IF outcome = "raised"
         THEN [st EXCEPT !.fired = @ \cup {n}, !.running = FALSE]
         ELSE [st EXCEPT !.fired = @ \cup {n},
                         !.entries[n] = advance(st.entries[n])]

\* lines 86-94 for one entry at clock t, on st = [entries, fired, running]:
\* the callback is awaited, what it raises is logged, the entry advances
loop_entry(st, n, t, outcome) ==
    IF ~st.running \/ st.entries[n] = NoEntry \/ t < st.entries[n] THEN st
    ELSE [st EXCEPT !.fired = @ \cup {n},
                    !.entries[n] = advance(st.entries[n])]

\* line 85: the entries one after the other
RECURSIVE loop_from(_, _, _, _)
loop_from(st, i, t, outcomes) ==
    IF i > Len(NameSeq) THEN st
    ELSE loop_from(loop_entry(st, NameSeq[i], t, outcomes[NameSeq[i]]),
                   i + 1, t, outcomes)

\* the names whose callback raised in the loop's iterations so far
RaisedSoFar ==
    IF libcall.fn # "_run" THEN {}
    ELSE libcall.args.earlier \cup
         {n \in libcall.out : libcall.args.outcomes[n] = "raised"}

\* add lines 50-52 with a valid expression
SchedAdd(n) ==
    /\ entries' = [entries EXCEPT ![n] = CronNext(now)]
    /\ UNCHANGED <<phase, files, registry, runners, rn, now, calls, reply, rl,
                   reloads, hbVars, fleetVars, libVars>>

\* remove line 62
SchedRemove(n) ==
    /\ entries' = [entries EXCEPT ![n] = NoEntry]
    /\ UNCHANGED <<phase, files, registry, runners, rn, now, calls, reply, rl,
                   reloads, hbVars, fleetVars, libVars>>

\* start lines 67-68
SchedStart ==
    /\ sched_task = "none"
    /\ sched_task' = "running"
    /\ UNCHANGED <<nodeVars, fleetVars, libcall, gate, reaper>>

\* one iteration of _run lines 83-95 at clock t; the task is done when the
\* loop was left
SchedLoop(t, outcomes) ==
    /\ sched_task = "running"
    /\ t > now
    /\ LET st == loop_from([entries |-> entries, fired |-> {},
                            running |-> TRUE], 1, t, outcomes)
       IN  /\ entries' = st.entries
           /\ sched_task' = IF st.running THEN "running" ELSE "done"
           /\ libcall' = [fn |-> "_run",
                          args |-> [t |-> t, outcomes |-> outcomes,
                                    before |-> entries,
                                    earlier |-> RaisedSoFar],
                          out |-> st.fired]
    /\ now' = t
    /\ UNCHANGED <<phase, files, registry, runners, rn, calls, reply, rl,
                   reloads, hbVars, fleetVars, gate, reaper>>

(***************************************************************************)
(* A WorkloadRunner driven through its own interface by one caller that    *)
(* awaits each call before the next (tests/unit/test_runner.py).           *)
(***************************************************************************)
NoCall == \A c \in CIDs : calls[c].kind = "idle"

RunnerStart(r) ==
    /\ NoCall
    /\ Exists(rn[r])
    /\ rn' = [rn EXCEPT ![r] = runner_start(@)]
    /\ reply' = [NoReply EXCEPT !.kind = "runner_start", !.text = "returned"]
    /\ UNCHANGED <<phase, registry, runners, entries, now, calls>>
    /\ UNCHANGED <<files, rl, reloads>>
    /\ UNCHANGED hbVars
    /\ UNCHANGED <<fleetVars, libVars>>

RunnerStop(c, r) ==
    /\ NoCall
    /\ LowestIdle(c)
    /\ Exists(rn[r])
    /\ LET call == [Idle EXCEPT !.kind = "runner_stop", !.rid = r]
           s == StopCall(rn[r])
           CALLS == [calls EXCEPT ![c] =
                       IF s.pc = "returned" THEN Reply(call, "returned")
                       ELSE [call EXCEPT !.pc = s.pc]]
       IN  /\ rn' = Collect([rn EXCEPT ![r] = s.r], runners, Settle(CALLS))
           /\ calls' = Settle(CALLS)
           /\ reply' = Out(CALLS)
    /\ UNCHANGED <<phase, registry, runners, entries, now>>
    /\ UNCHANGED <<files, rl, reloads>>
    /\ UNCHANGED hbVars
    /\ UNCHANGED <<fleetVars, libVars>>

(***************************************************************************)
(* fleet/store.py: the fleet_clients and fleet_workloads tables as seen    *)
(* through the one shared connection.                                      *)
(***************************************************************************)
\* the fleet's clients, in the order of a deployment's target list
TargetSeq == <<"a", "b">>
FleetClients == {TargetSeq[i] : i \in 1..Len(TargetSeq)}

NoSeen == 0 - 1

\* the api_port upsert_heartbeat inserts
DefaultPort == 9100

\* the address heartbeats come from, and the endpoint discovery reports
HeartbeatHost == "h1"
DiscoveredHost == "h2"
DiscoveredPort == 9200

NoClient ==
    [status |-> "none", last_seen |-> NoSeen, host |-> "-", api_port |-> 0]

\* version: payload.deployed_version ("null": None)
NoHeartbeat ==
    [pc |-> "idle", payload |-> {}, todo |-> <<>>, version |-> "null"]

NoRet == [op |-> "none", client |-> "-", threshold |-> 0, rowcount |-> 0]

Returned(op, c) == [NoRet EXCEPT !.op = op, !.client = c]

WSeq == <<"x", "y">>
WNames == {WSeq[i] : i \in 1..Len(WSeq)}

\* the workloads of a payload, in the payload's order
RECURSIVE InOrder(_, _)
InOrder(P, i) ==
    IF i > Len(WSeq) THEN <<>>
    ELSE IF WSeq[i] \in P THEN <<WSeq[i]>> \o InOrder(P, i + 1)
    ELSE InOrder(P, i + 1)

\* the workload names stored for client c
WorkloadsOf(rows, c) == {w \in WNames : <<c, w>> \in rows}

\* the DELETE of lines 150-158 without its client_name condition
delete_unreported_any_client(rows, c, P) == {row \in rows : row[2] \in P}

\* upsert_heartbeat lines 146-158: both DELETE statements keep exactly the
\* rows of other clients and the rows of c named in the payload
delete_unreported(rows, c, P) ==
    {row \in rows : row[1] # c \/ row[2] \in P}

\* "deployed_version = excluded.deployed_version"
Excluded(new, old) == new

\* "deployed_version = COALESCE(excluded.deployed_version, deployed_version)"
Coalesce(new, old) == IF new = "null" THEN old ELSE new

\* lines 84-99 on the row of one client: INSERT, or on conflict the update of
\* host, status and last_seen (api_port is not in the SET list)
upsert_client(row, host, t) ==
    IF row.status = "none"
    THEN [status |-> "online", last_seen |-> t, host |-> host,
          api_port |-> DefaultPort]
    ELSE [row EXCEPT !.status = "online", !.last_seen = t, !.host = host]

\* upsert_heartbeat lines 80-113: the upsert of the fleet_clients row
HbBegin(c, P, dv) ==
    /\ hb[c].pc = "idle"
    /\ clients' = [clients EXCEPT ![c] =
                     upsert_client(@, HeartbeatHost, sclock)]
    /\ stored' = [stored EXCEPT ![c] = Coalesce(dv, @)]
    /\ hb' = [hb EXCEPT ![c] =
                [pc |-> IF P = {} THEN "delete" ELSE "workloads",
                 payload |-> P, todo |-> InOrder(P, 1), version |-> dv]]
    /\ ret' = NoRet
    /\ UNCHANGED <<wrows, sclock>>
    /\ UNCHANGED <<deployment, dep_clients, dtask, push, active, cancel,
                   rb_logged, rb_pushed>>
    /\ UNCHANGED <<nodeVars, libVars>>

\* lines 116-143: the upsert of the next workload row
HbWorkload(c) ==
    /\ hb[c].pc = "workloads"
    /\ wrows' = wrows \cup {<<c, Head(hb[c].todo)>>}
    /\ hb' = [hb EXCEPT ![c].todo = Tail(@),
                        ![c].pc = IF Tail(hb[c].todo) = <<>> THEN "delete"
                                  ELSE "workloads"]
    /\ ret' = NoRet
    /\ UNCHANGED <<clients, sclock>>
    /\ UNCHANGED <<nodeVars, deployVars, libVars>>

\* lines 146-158
HbDelete(c) ==
    /\ hb[c].pc = "delete"
    /\ wrows' = delete_unreported(wrows, c, hb[c].payload)
    /\ hb' = [hb EXCEPT ![c].pc = "commit"]
    /\ ret' = NoRet
    /\ UNCHANGED <<clients, sclock>>
    /\ UNCHANGED <<nodeVars, deployVars, libVars>>

\* line 160: commit; upsert_heartbeat returns
HbCommit(c) ==
    /\ hb[c].pc = "commit"
    /\ hb' = [hb EXCEPT ![c] = NoHeartbeat]
    /\ ret' = Returned("upsert_heartbeat", c)
    /\ UNCHANGED <<clients, wrows, sclock>>
    /\ UNCHANGED <<nodeVars, deployVars, libVars>>

\* an UPDATE ... WHERE status = 'online', without the last_seen condition
mark_stale_all_online(cl, threshold) ==
    [c \in FleetClients |->
        IF cl[c].status = "online" THEN [cl[c] EXCEPT !.status = "offline"]
        ELSE cl[c]]

\* mark_stale_clients(threshold) lines 249-254: the UPDATE
mark_stale(cl, threshold) ==
    [c \in FleetClients |->
        IF cl[c].status = "online" /\ cl[c].last_seen < sclock - threshold
        THEN [cl[c] EXCEPT !.status = "offline"]
        ELSE cl[c]]

\* cursor.rowcount of that UPDATE: the rows it has written
rowcount(before, after) ==
    Cardinality({c \in FleetClients :
                    before[c].status = "online" /\ after[c].status = "offline"})

\* mark_stale_clients(threshold): UPDATE, commit, return of the row count
MarkStale(threshold) ==
    /\ clients' = mark_stale(clients, threshold)
    /\ ret' = [op |-> "mark_stale_clients", client |-> "-",
               threshold |-> threshold,
               rowcount |-> rowcount(clients, mark_stale(clients, threshold))]
    /\ UNCHANGED <<wrows, hb, sclock>>
    /\ UNCHANGED <<nodeVars, deployVars, libVars>>

\* the upsert of lines 304-312 without its WHERE clause
register_discovered_overwriting(row, host, port) ==
    [row EXCEPT !.status = "discovered", !.host = host, !.api_port = port]

\* lines 304-312 on the row of one client: INSERT (last_seen stays NULL), or
\* on conflict the update "WHERE fleet_clients.status != 'online'"
register_discovered(row, host, port) ==
    IF row.status = "online" THEN row
    ELSE [row EXCEPT !.status = "discovered", !.host = host,
                     !.api_port = port]

\* register_discovered_client(c, host, port)
RegisterDiscovered(c, host, port) ==
    /\ clients' = [clients EXCEPT ![c] = register_discovered(@, host, port)]
    /\ ret' = Returned("register_discovered_client", c)
    /\ UNCHANGED <<wrows, hb, sclock>>
    /\ UNCHANGED <<nodeVars, deployVars, libVars>>

\* update_client_deployed_version(c, version) lines 478-486, as the deployer
\* calls it for a client that has turned healthy
UpdateClientVersion(c, version) ==
    /\ stored' = [stored EXCEPT ![c] = version]
    /\ ret' = Returned("update_client_deployed_version", c)
    /\ UNCHANGED <<clients, wrows, hb, sclock>>
    /\ UNCHANGED <<deployment, dep_clients, dtask, push, active, cancel,
                   rb_logged, rb_pushed>>
    /\ UNCHANGED <<nodeVars, libVars>>

(***************************************************************************)
(* fleet/deployer.py: one rolling deployment of version "v2" to the        *)
(* targets.  The deployment task is described by the operation it is about *)
(* to perform; a step performs it and runs to the next one.                *)
(***************************************************************************)
Min(a, b) == IF a < b THEN a ELSE b

one_batch(cs, batch_size) == <<cs>>

\* _create_batches: clients[i : i + batch_size] for i in range(0, len, size)
create_batches(cs, batch_size) ==
    [k \in 1..((Len(cs) + batch_size - 1) \div batch_size) |->
        SubSeq(cs, (k - 1) * batch_size + 1, Min(k * batch_size, Len(cs)))]

Batches == create_batches(TargetSeq, deployment.batch_size)

\* lines 62-66: the (client_name, batch_num) rows of batches k, k+1, ...;
\* enumerate() counts from 0
RECURSIVE all_clients(_, _)
all_clients(batches, k) ==
    IF k > Len(batches) THEN <<>>
    ELSE [i \in 1..Len(batches[k]) |-> <<batches[k][i], k - 1>>]
         \o all_clients(batches, k + 1)

NoLibCall == [fn |-> "none", args |-> <<>>, out |-> <<>>]

\* no _wait_for_health call has been made
NoGate ==
    [pc |-> "none", names |-> <<>>, timeout |-> 0, t |-> 0, deadline |-> 0,
     idx |-> 1, all_healthy |-> TRUE, began |-> 0, answers |-> <<>>,
     rounds |-> 0, result |-> FALSE]

\* the check_stale task has not been created
NoReaper == [pc |-> "none", warnings |-> 0]

LibIdle ==
    /\ libcall = NoLibCall
    /\ sched_task = "none"
    /\ gate = NoGate
    /\ reaper = NoReaper

\* the clients a request can name
TargetPool == {"a", "b", "c", "d"}

\* the target lists of a request: no client twice
TargetLists ==
    {t \in UNION {[1..k -> TargetPool] : k \in 1..MaxTargets} :
        \A i, j \in 1..Len(t) : t[i] = t[j] => i = j}

\* start_deployment lines 60-67 for any target list: the batches and the
\* rows handed to create_deployment_clients
CreateDeploymentClients(targets, batch_size) ==
    /\ libcall' =
          [fn |-> "start_deployment", args |-> <<targets, batch_size>>,
           out |-> <<create_batches(targets, batch_size),
                     all_clients(create_batches(targets, batch_size), 1)>>]
    /\ UNCHANGED <<nodeVars, fleetVars, sched_task, gate, reaper>>

\* the clients of batch number k (numbered from 0 as in the code)
BatchClients(k) == Batches[k + 1]

InSeq(c, q) == \E i \in 1..Len(q) : q[i] = c

NoDeployment ==
    [status |-> "none", batch_size |-> 1, auto_rollback |-> FALSE,
     error |-> "null"]

NoRow == [status |-> "none", batch_number |-> 0, previous_version |-> "null"]

NoTask ==
    [pc |-> "none", batch |-> 0, idx |-> 1, reload_failed |-> FALSE,
     todo |-> <<>>, error |-> "null"]

\* a cancel_deployment that takes every task for finished
TaskEndedAlways(T) == TRUE

\* "task and not task.done()" is false
TaskEnded(T) == T.pc \in {"none", "done", "cancelled"}

NoPush == [c \in FleetClients |-> "-"]

\* a gather() over the clients of every batch at once
PushesOfAll(k) == [c \in FleetClients |-> "mark_deploying"]

\* the coroutines gather() starts for batch number k
PushesOf(k) ==
    [c \in FleetClients |->
        IF InSeq(c, BatchClients(k)) THEN "mark_deploying" ELSE "-"]

\* start_deployment with explicit targets
StartDeployment(batch_size, auto_rollback) ==
    /\ deployment.status = "none"
    /\ deployment' = [status |-> "pending", batch_size |-> batch_size,
                      auto_rollback |-> auto_rollback, error |-> "null"]
    /\ dep_clients' =
          [c \in FleetClients |->
              [status |-> "pending",
               batch_number |->
                  CHOOSE k \in 0..Len(TargetSeq) :
                     k + 1 <= Len(create_batches(TargetSeq, batch_size))
                     /\ InSeq(c, create_batches(TargetSeq, batch_size)[k + 1]),
               previous_version |-> "null"]]
    /\ dtask' = [NoTask EXCEPT !.pc = "created"]
    /\ active' = TRUE
    /\ UNCHANGED <<stored, push, cancel, rb_logged, rb_pushed>>
    /\ UNCHANGED <<nodeVars, storeVars, libVars>>

\* line 97, then the gather of batch 0 is started
ExecBegin ==
    /\ dtask.pc = "created"
    /\ deployment' = [deployment EXCEPT !.status = "in_progress"]
    /\ dtask' = [dtask EXCEPT !.pc = "gather", !.batch = 0]
    /\ push' = PushesOf(0)
    /\ UNCHANGED <<dep_clients, stored, active, cancel, rb_logged, rb_pushed>>
    /\ UNCHANGED <<nodeVars, storeVars, libVars>>

\* _deploy_single_client for client c: one store call or the script
PushStep(c) ==
    /\ dtask.pc = "gather"
    /\ \/ /\ push[c] = "mark_deploying"
          /\ dep_clients' = [dep_clients EXCEPT ![c].status = "deploying"]
          /\ push' = [push EXCEPT ![c] = "record_prev"]
       \/ /\ push[c] = "record_prev"
          /\ dep_clients' =
                [dep_clients EXCEPT ![c].previous_version = stored[c]]
          /\ push' = [push EXCEPT ![c] = "script"]
       \/ /\ push[c] = "script"
          /\ \E result \in {"true", "mark_failed", "raised"} :
                push' = [push EXCEPT ![c] = result]
          /\ UNCHANGED dep_clients
       \/ /\ push[c] = "mark_failed"
          /\ dep_clients' = [dep_clients EXCEPT ![c].status = "failed"]
          /\ push' = [push EXCEPT ![c] = "false"]
    /\ UNCHANGED <<deployment, stored, dtask, active, cancel, rb_logged, rb_pushed>>
    /\ UNCHANGED <<nodeVars, storeVars, libVars>>

\* lines 131-139, 162-170, 179-187: what the task does about a failed batch;
\* error is the summary it would store
FailBatch(T, error) ==
    IF deployment.auto_rollback THEN [T EXCEPT !.pc = "set_rolling_back"]
    ELSE [T EXCEPT !.pc = "set_failed", !.error = error]

\* lines 109-141: gather() returns when every push has ended
GatherReturn ==
    /\ dtask.pc = "gather"
    /\ \A c \in FleetClients : push[c] \in {"-", "true", "false", "raised"}
    /\ dtask' =
          IF \E c \in FleetClients : push[c] \in {"false", "raised"}
          THEN FailBatch(dtask, "Deploy failed")
          ELSE [dtask EXCEPT !.pc = "reload", !.idx = 1,
                             !.reload_failed = FALSE]
    /\ push' = NoPush
    /\ UNCHANGED <<deployment, dep_clients, stored, active, cancel, rb_logged, rb_pushed>>
    /\ UNCHANGED <<nodeVars, storeVars, libVars>>

\* the deployment task ends: "finally: self._active.pop(...)"
TaskReturn(T) == [T EXCEPT !.pc = "done"]

\* lines 134-139, 165-170, 182-187: update_deployment_status(id, "failed")
SetFailed ==
    /\ dtask.pc = "set_failed"
    /\ deployment' = [deployment EXCEPT !.status = "failed",
                                        !.error = dtask.error]
    /\ dtask' = TaskReturn(dtask)
    /\ active' = FALSE
    /\ UNCHANGED <<dep_clients, stored, push, cancel, rb_logged, rb_pushed>>
    /\ UNCHANGED <<nodeVars, storeVars, libVars>>

\* the end of one iteration of the reload loop (lines 143-170)
ReloadNext(T) ==
    IF T.idx < Len(BatchClients(T.batch))
    THEN [T EXCEPT !.pc = "reload", !.idx = T.idx + 1]
    ELSE IF T.reload_failed THEN FailBatch(T, "Reload failed")
    ELSE [T EXCEPT !.pc = "health"]

\* lines 144-150: resolve_client_endpoint, then the reload request
Reload(outcome) ==
    /\ dtask.pc = "reload"
    /\ dtask' =
          CASE outcome = "no_endpoint" ->
                 ReloadNext([dtask EXCEPT !.reload_failed = TRUE])
            [] outcome = "ok" -> [dtask EXCEPT !.pc = "mark_deployed"]
            [] OTHER -> [dtask EXCEPT !.pc = "mark_reload_failed"]
    /\ UNCHANGED <<deployment, dep_clients, stored, push, active, cancel,
                   rb_logged, rb_pushed>>
    /\ UNCHANGED <<nodeVars, storeVars, libVars>>

\* lines 151-153 and lines 156-159
MarkReloaded ==
    /\ dtask.pc \in {"mark_deployed", "mark_reload_failed"}
    /\ LET c == BatchClients(dtask.batch)[dtask.idx]
       IN  IF dtask.pc = "mark_deployed"
           THEN /\ dep_clients' = [dep_clients EXCEPT ![c].status = "deployed"]
                /\ dtask' = ReloadNext(dtask)
           ELSE /\ dep_clients' = [dep_clients EXCEPT ![c].status = "failed"]
                /\ dtask' = ReloadNext([dtask EXCEPT !.reload_failed = TRUE])
    /\ UNCHANGED <<deployment, stored, push, active, cancel, rb_logged, rb_pushed>>
    /\ UNCHANGED <<nodeVars, storeVars, libVars>>

\* lines 173-187: _wait_for_health returns healthy
HealthGate(healthy) ==
    /\ dtask.pc = "health"
    /\ dtask' = IF healthy THEN [dtask EXCEPT !.pc = "mark_healthy", !.idx = 1]
                ELSE FailBatch(dtask, "Health check timeout")
    /\ UNCHANGED <<deployment, dep_clients, stored, push, active, cancel,
                   rb_logged, rb_pushed>>
    /\ UNCHANGED <<nodeVars, storeVars, libVars>>

\* lines 191-193
MarkHealthy ==
    /\ dtask.pc = "mark_healthy"
    /\ dep_clients' =
          [dep_clients EXCEPT
              ![BatchClients(dtask.batch)[dtask.idx]].status = "healthy"]
    /\ dtask' = [dtask EXCEPT !.pc = "set_version"]
    /\ UNCHANGED <<deployment, stored, push, active, cancel, rb_logged, rb_pushed>>
    /\ UNCHANGED <<nodeVars, storeVars, libVars>>

\* a loop over the batches that ends after the batch it is in
AfterVersionLastBatch(T) ==
    IF T.idx < Len(BatchClients(T.batch))
    THEN [T EXCEPT !.pc = "mark_healthy", !.idx = T.idx + 1]
    ELSE [T EXCEPT !.pc = "set_completed"]

\* the end of one iteration of the loop of lines 190-196: the next client of
\* the batch, the next batch (line 100) or line 204
AfterVersion(T) ==
    IF T.idx < Len(BatchClients(T.batch))
    THEN [T EXCEPT !.pc = "mark_healthy", !.idx = T.idx + 1]
    ELSE IF T.batch + 1 < Len(Batches)
    THEN [T EXCEPT !.pc = "gather", !.batch = T.batch + 1]
    ELSE [T EXCEPT !.pc = "set_completed"]

\* lines 194-196, then the next client, the next batch or line 204
SetVersion ==
    /\ dtask.pc = "set_version"
    /\ stored' = [stored EXCEPT ![BatchClients(dtask.batch)[dtask.idx]] = "v2"]
    /\ dtask' = AfterVersion(dtask)
    /\ push' = IF AfterVersion(dtask).pc = "gather"
               THEN PushesOf(AfterVersion(dtask).batch)
               ELSE push
    /\ UNCHANGED <<deployment, dep_clients, active, cancel, rb_logged, rb_pushed>>
    /\ UNCHANGED <<nodeVars, storeVars, libVars>>

\* line 204
SetCompleted ==
    /\ dtask.pc = "set_completed"
    /\ deployment' = [deployment EXCEPT !.status = "completed",
                                        !.error = "null"]
    /\ dtask' = TaskReturn(dtask)
    /\ active' = FALSE
    /\ UNCHANGED <<dep_clients, stored, push, cancel, rb_logged, rb_pushed>>
    /\ UNCHANGED <<nodeVars, storeVars, libVars>>

\* _rollback lines 307-312: the rows to roll back, in the rows' order
RECURSIVE to_rollback(_, _, _)
to_rollback(rows, failed_batch, i) ==
    IF i > Len(TargetSeq) THEN <<>>
    ELSE LET c == TargetSeq[i]
             rest == to_rollback(rows, failed_batch, i + 1)
         IN  IF /\ rows[c].batch_number <= failed_batch
                /\ rows[c].status \in
                      {"deployed", "healthy", "deploying", "failed"}
             THEN <<c>> \o rest
             ELSE rest

\* a rollback loop that never re-invokes the deploy script
RollbackNextNoScript(T) ==
    IF T.todo = <<>> THEN [T EXCEPT !.pc = "set_rolled_back"]
    ELSE [T EXCEPT !.pc = "rb_mark"]

\* lines 314-315 for the first client left, or line 359
RollbackNext(T) ==
    IF T.todo = <<>> THEN [T EXCEPT !.pc = "set_rolled_back"]
    ELSE IF dep_clients[Head(T.todo)].previous_version # "null"
    THEN [T EXCEPT !.pc = "rb_script"]
    ELSE [T EXCEPT !.pc = "rb_mark"]

\* lines 304-312
SetRollingBack ==
    /\ dtask.pc = "set_rolling_back"
    /\ deployment' = [deployment EXCEPT !.status = "rolling_back",
                                        !.error = "null"]
    /\ dtask' = RollbackNext([dtask EXCEPT
                                !.todo = to_rollback(dep_clients, dtask.batch, 1)])
    /\ UNCHANGED <<dep_clients, stored, push, active, cancel, rb_logged, rb_pushed>>
    /\ UNCHANGED <<nodeVars, storeVars, libVars>>

\* lines 317-333: the deploy script with the previous version; its exit code
\* is not looked at, only an exception is logged (lines 348-353)
RollbackScript(outcome) ==
    /\ dtask.pc = "rb_script"
    /\ IF outcome = "raised"
       THEN /\ rb_logged' = rb_logged \cup {Head(dtask.todo)}
            /\ dtask' = [dtask EXCEPT !.pc = "rb_mark"]
       ELSE /\ dtask' = [dtask EXCEPT !.pc = "rb_reload"]
            /\ UNCHANGED rb_logged
    /\ rb_pushed' = rb_pushed \cup {Head(dtask.todo)}
    /\ UNCHANGED <<deployment, dep_clients, stored, push, active, cancel>>
    /\ UNCHANGED <<nodeVars, storeVars, libVars>>

\* lines 336-341: resolve_client_endpoint and the reload request
RollbackReload(outcome) ==
    /\ dtask.pc = "rb_reload"
    /\ rb_logged' = IF outcome = "raised" THEN rb_logged \cup {Head(dtask.todo)}
                    ELSE rb_logged
    /\ dtask' = [dtask EXCEPT !.pc = "rb_mark"]
    /\ UNCHANGED <<deployment, dep_clients, stored, push, active, cancel,
                   rb_pushed>>
    /\ UNCHANGED <<nodeVars, storeVars, libVars>>

\* lines 355-357
RollbackMark ==
    /\ dtask.pc = "rb_mark"
    /\ dep_clients' =
          [dep_clients EXCEPT ![Head(dtask.todo)].status = "rolled_back"]
    /\ dtask' = RollbackNext([dtask EXCEPT !.todo = Tail(dtask.todo)])
    /\ UNCHANGED <<deployment, stored, push, active, cancel, rb_logged, rb_pushed>>
    /\ UNCHANGED <<nodeVars, storeVars, libVars>>

\* line 359
SetRolledBack ==
    /\ dtask.pc = "set_rolled_back"
    /\ deployment' = [deployment EXCEPT !.status = "rolled_back",
                                        !.error = "null"]
    /\ dtask' = TaskReturn(dtask)
    /\ active' = FALSE
    /\ UNCHANGED <<dep_clients, stored, push, cancel, rb_logged, rb_pushed>>
    /\ UNCHANGED <<nodeVars, storeVars, libVars>>

\* cancel_deployment lines 78-84: a task that has not ended is cancelled at
\* the await it is suspended in (one that never ran does not reach its
\* "finally")
CancelBegin ==
    /\ deployment.status # "none"
    /\ cancel = "idle"
    /\ cancel' = "write"
    /\ IF TaskEnded(dtask) THEN UNCHANGED <<dtask, push, active>>
       ELSE /\ dtask' = [dtask EXCEPT !.pc = "cancelled"]
            /\ push' = NoPush
            /\ active' = (dtask.pc = "created" /\ active)
    /\ UNCHANGED <<deployment, dep_clients, stored, rb_logged, rb_pushed>>
    /\ UNCHANGED <<nodeVars, storeVars, libVars>>

\* cancel_deployment lines 85-88
CancelWrite ==
    /\ cancel = "write"
    /\ deployment' = [deployment EXCEPT !.status = "failed",
                                        !.error = "Cancelled by user"]
    /\ active' = FALSE
    /\ cancel' = "idle"
    /\ UNCHANGED <<dep_clients, stored, dtask, push, rb_logged, rb_pushed>>
    /\ UNCHANGED <<nodeVars, storeVars, libVars>>

\* no deployment was ever requested
DeployIdle ==
    /\ deployment = NoDeployment
    /\ dep_clients = [c \in FleetClients |-> NoRow]
    /\ stored = [c \in FleetClients |-> "null"]
    /\ dtask = NoTask
    /\ push = NoPush
    /\ active = FALSE
    /\ cancel = "idle"
    /\ rb_logged = {}
    /\ rb_pushed = {}

\* a central server whose clients have reported any version or none
DeployInit ==
    /\ deployment = NoDeployment
    /\ dep_clients = [c \in FleetClients |-> NoRow]
    /\ stored \in [FleetClients -> {"null", "v1"}]
    /\ dtask = NoTask
    /\ push = NoPush
    /\ active = FALSE
    /\ cancel = "idle"
    /\ rb_logged = {}
    /\ rb_pushed = {}

\* no client has been heard of
StoreIdle ==
    /\ clients = [c \in FleetClients |-> NoClient]
    /\ wrows = {}
    /\ hb = [c \in FleetClients |-> NoHeartbeat]
    /\ sclock = 0
    /\ ret = NoRet

(***************************************************************************)
(* Specifications                                                          *)
(***************************************************************************)
vars == <<nodeVars, fleetVars, libVars>>

\* the node after Orchestrator.__init__
NodeInit ==
    /\ phase = "constructed"
    /\ files = [n \in Names |-> NoSpec]
    /\ registry = [n \in Names |-> NoSpec]
    /\ runners = [n \in Names |-> 0]
    /\ rn = [r \in RIDs |-> NoRunner]
    /\ entries = [n \in Names |-> NoEntry]
    /\ now = 0
    /\ calls = [c \in CIDs |-> Idle]
    /\ reply = NoReply
    /\ rl = NoReload
    /\ reloads = 0
    /\ version_file = "null"
    /\ deployed_version = "null"
    /\ payload = NoPayload

Init == NodeInit /\ DeployIdle /\ StoreIdle /\ LibIdle

\* the steps of one supervision task when nothing raises
Supervise(r) ==
    \/ SupLaunched(r)
    \/ SupRecordStart(r)
    \/ SupExit(r)
    \/ SupFinish(r)
    \/ SupSleepDone(r)

StopSteps(c) ==
    \/ StopProcessExited(c)
    \/ StopTimeout(c)
    \/ StopTaskDone(c)

\* a node with one workload whose config directory never changes
BootConfigs == {cfg \in Configs : \A n \in Names : cfg[n] # NoSpec <=> n \in BootNames}

Next ==
    \/ \E cfg \in BootConfigs : Boot(cfg)
    \/ \E c \in CIDs, n \in BootNames : CmdStart(c, n)
    \/ \E c \in CIDs : StartFinish(c)
    \/ \E c \in CIDs, n \in BootNames : CmdStop(c, n)
    \/ \E c \in CIDs, n \in BootNames : CmdRestart(c, n)
    \/ \E c \in CIDs : StopSteps(c)
    \/ \E r \in RIDs : Supervise(r)
    \/ \E r \in RIDs : ChildExit(r)
    \/ \E r \in RIDs : SupRaise(r)
    \/ HealthSweep
    \/ \E t \in 1..MaxTime : SchedTick(t)
    \/ ShutdownBegin
    \/ \E c \in CIDs, n \in BootNames : ShutdownStop(c, n)

Spec == Init /\ [][Next]_vars

\* one WorkloadRunner constructed from any spec, outside an orchestrator
RunnerInit ==
    /\ phase = "constructed"
    /\ files = [n \in Names |-> NoSpec]
    /\ registry = [n \in Names |-> NoSpec]
    /\ runners = [n \in Names |-> 1]
    /\ \E spec \in SpecsOf(NameSeq[1]) :
          rn = [r \in RIDs |-> IF r = 1 THEN NewRunner(spec) ELSE NoRunner]
    /\ entries = [n \in Names |-> NoEntry]
    /\ now = 0
    /\ calls = [c \in CIDs |-> Idle]
    /\ reply = NoReply
    /\ rl = NoReload
    /\ reloads = 0
    /\ version_file = "null"
    /\ deployed_version = "null"
    /\ payload = NoPayload
    /\ DeployIdle
    /\ StoreIdle
    /\ LibIdle

RunnerNext ==
    \/ RunnerStart(1)
    \/ \E c \in CIDs : RunnerStop(c, 1)
    \/ \E c \in CIDs : StopSteps(c)
    \/ Supervise(1)
    \/ ChildExit(1)
    \/ SupRaise(1)

SpecRunner == RunnerInit /\ [][RunnerNext]_vars

\* A node in which no database write and no process launch raises, with the
\* event loop running every supervision task that is ready.
NextNoFault ==
    \/ \E cfg \in BootConfigs : Boot(cfg)
    \/ \E c \in CIDs, n \in BootNames : CmdStart(c, n)
    \/ \E c \in CIDs : StartFinish(c)
    \/ \E c \in CIDs, n \in BootNames : CmdStop(c, n)
    \/ \E c \in CIDs : StopSteps(c)
    \/ \E r \in RIDs : Supervise(r)
    \/ \E r \in RIDs : ChildExit(r)
    \/ HealthSweep

SpecFair ==
    /\ Init
    /\ [][NextNoFault]_vars
    /\ \A r \in RIDs : WF_vars(Supervise(r))

\* A node whose config directory changes between reloads, with start
\* commands arriving while a reload is in flight.
\* The workloads of its files run forever or on a schedule.
Changing(F) ==
    {f \in F : \A n \in Names : f[n].run_mode # "n_times"}

NextReload ==
    \/ \E cfg \in Changing(Configs) : Boot(cfg)
    \/ \E c \in CIDs, f \in Changing(Directories) : ReloadCmd(c, f)
    \/ \E c \in CIDs : ReloadProcessExited(c)
    \/ \E c \in CIDs : ReloadTimeout(c)
    \/ \E c \in CIDs : ReloadTaskDone(c)
    \/ \E c \in CIDs : ReloadSaved(c)
    \/ \E c \in CIDs, n \in Names : CmdStart(c, n)
    \/ \E c \in CIDs : StartFinish(c)
    \/ \E r \in RIDs : Supervise(r)
    \/ \E r \in RIDs : ChildExit(r)

SpecReload == Init /\ [][NextReload]_vars

\* A node whose config directory changes between reloads and can come to
\* hold a schedule the scheduler rejects.
NextCron ==
    \/ \E cfg \in Changing(Configs) : Boot(cfg)
    \/ \E c \in CIDs, f \in Changing(CronDirectories) : ReloadCmd(c, f)
    \/ \E c \in CIDs : ReloadProcessExited(c)
    \/ \E c \in CIDs : ReloadTimeout(c)
    \/ \E c \in CIDs : ReloadTaskDone(c)
    \/ \E c \in CIDs : ReloadSaved(c)
    \/ \E r \in RIDs : Supervise(r)
    \/ \E r \in RIDs : ChildExit(r)

SpecCron == Init /\ [][NextCron]_vars

\* A node with any workloads, whose launches and run-history writes can
\* raise, left to its supervision tasks and its health checker.
NextFaults ==
    \/ \E cfg \in Configs : Boot(cfg)
    \/ \E r \in RIDs : Supervise(r)
    \/ \E r \in RIDs : ChildExit(r)
    \/ \E r \in RIDs : SupRaise(r)
    \/ HealthSweep

SpecFaults == Init /\ [][NextFaults]_vars

\* A node, booted before or after a deployment has left its version file,
\* whose reporter builds heartbeats while the workloads run.
NextHeartbeat ==
    \/ \E cfg \in Changing(Configs) : Boot(cfg)
    \/ \E v \in Versions : WriteVersion(v)
    \/ \E c \in CIDs, f \in {files} : ReloadCmd(c, f)
    \/ \E r \in RIDs : Supervise(r)
    \/ \E r \in RIDs : ChildExit(r)
    \/ BuildPayload

SpecHeartbeat == Init /\ [][NextHeartbeat]_vars

\* A node whose config directory stays as it was loaded, reloaded again and
\* again while its workloads and its scheduler run.
NextSame ==
    \/ \E cfg \in Configs : Boot(cfg)
    \/ \E c \in CIDs : ReloadCmd(c, files)
    \/ \E t \in (now + 1)..MaxTime : SchedTick(t)
    \/ \E r \in RIDs : Supervise(r)
    \/ \E r \in RIDs : ChildExit(r)

SpecSame == Init /\ [][NextSame]_vars

\* any sequence of calls on one WorkloadRegistry
RegistryNext ==
    \/ \E spec \in WorkloadSpec : Register(spec)
    \/ \E name \in Names : Unregister(name)
    \/ \E name \in Names : Get(name)

InitRegistry == NodeInit /\ DeployIdle /\ StoreIdle /\ LibIdle

SpecRegistry == InitRegistry /\ [][RegistryNext]_vars

\* every tag, every max_runs (0: absent), run counts up to one beyond the
\* largest max_runs, every exit code
ModesNext ==
    \E run_mode \in RunModeTags, max_runs \in 0..MaxRuns,
       run_count \in 0..(MaxRuns + 1), exit_code \in ExitCodes :
        AskStrategy(run_mode, max_runs, run_count, exit_code)

InitModes == NodeInit /\ DeployIdle /\ StoreIdle /\ LibIdle

SpecModes == InitModes /\ [][ModesNext]_vars

\* the states list_workloads() hands to a sweep: any list at the first
\* sweep, the same objects as the sweep before left them afterwards
Swept == IF libcall.fn = "_check_all" THEN {libcall.out} ELSE StateLists

\* one sweep after another (_run lines 99-101), the process table free to
\* change in between
HealthNext ==
    \E states \in Swept, alive \in SUBSET Pids : CheckAll(states, alive)

InitHealth == NodeInit /\ DeployIdle /\ StoreIdle /\ LibIdle

SpecHealth == InitHealth /\ [][HealthNext]_vars

\* a ScheduleManager whose entries are added and removed while its loop
\* runs, every callback free to raise
SchedNext ==
    \/ \E n \in Names : SchedAdd(n)
    \/ \E n \in Names : SchedRemove(n)
    \/ SchedStart
    \/ \E t \in (now + 1)..MaxTime, outcomes \in [Names -> CallbackOutcomes] :
          SchedLoop(t, outcomes)

InitSched == NodeInit /\ DeployIdle /\ StoreIdle /\ LibIdle

SpecSched == InitSched /\ [][SchedNext]_vars

(***************************************************************************)
(* fleet/deployer.py, _wait_for_health on its own: one step per await.     *)
(* gate.t is the event loop's clock, counted from the call; began, answers *)
(* and rounds record the round in progress and are read by no step.        *)
(***************************************************************************)
\* asyncio.sleep(5.0) between two rounds
PollSleep == 5

\* the longest health_check_timeout asked for, the longest one client's
\* resolve and request take
MaxTimeout == 11
MaxTook == 1

\* what one client's resolve_client_endpoint and health_check come to
PollOutcomes == {"no_endpoint", "ok", "unhealthy", "raised"}

\* the batches a gate is asked about
GateBatches == {SubSeq(TargetSeq, 1, k) : k \in 1..Len(TargetSeq)}

\* all_healthy after the last client of a round only
round_flag_last(all_healthy, outcome) == outcome = "ok"

\* all_healthy after one more client of the round
round_flag(all_healthy, outcome) == all_healthy /\ outcome = "ok"

\* the while condition: another round, or return False
loop_head(g) ==
    IF g.t < g.deadline
    THEN [g EXCEPT !.pc = "poll", !.idx = 1, !.all_healthy = TRUE,
                   !.began = g.t, !.answers = <<>>]
    ELSE [g EXCEPT !.pc = "returned", !.result = FALSE]

\* _wait_for_health(client_names, timeout) up to its first await
GateCall(client_names, timeout) ==
    /\ gate.pc \in {"none", "returned"}
    /\ gate' = loop_head([NoGate EXCEPT !.names = client_names,
                                        !.timeout = timeout,
                                        !.deadline = timeout])
    /\ UNCHANGED <<nodeVars, fleetVars, libcall, sched_task, reaper>>

\* one client of the round answered after took seconds; after the last one
\* the round returns True or goes to sleep
GatePoll(outcome, took) ==
    /\ gate.pc = "poll"
    /\ LET g == [gate EXCEPT !.t = @ + took,
                             !.all_healthy = round_flag(@, outcome),
                             !.answers = Append(@, outcome),
                             !.idx = @ + 1]
       IN  gate' =
             IF gate.idx < Len(gate.names) THEN g
             ELSE IF g.all_healthy
             THEN [g EXCEPT !.pc = "returned", !.result = TRUE,
                            !.rounds = @ + 1]
             ELSE [g EXCEPT !.pc = "sleep", !.rounds = @ + 1]
    /\ UNCHANGED <<nodeVars, fleetVars, libcall, sched_task, reaper>>

\* the sleep is over: the while condition again
GateWake ==
    /\ gate.pc = "sleep"
    /\ gate' = loop_head([gate EXCEPT !.t = @ + PollSleep])
    /\ UNCHANGED <<nodeVars, fleetVars, libcall, sched_task, reaper>>

\* one health gate after another, every timeout and every answer
GateNext ==
    \/ \E client_names \in GateBatches, timeout \in 0..MaxTimeout :
          GateCall(client_names, timeout)
    \/ \E outcome \in PollOutcomes, took \in 0..MaxTook :
          GatePoll(outcome, took)
    \/ GateWake

InitGate == NodeInit /\ DeployIdle /\ StoreIdle /\ LibIdle

SpecGate == InitGate /\ [][GateNext]_vars

DeployNext ==
    \/ \E batch_size \in 1..MaxBatch, auto_rollback \in BOOLEAN :
          StartDeployment(batch_size, auto_rollback)
    \/ ExecBegin
    \/ \E c \in FleetClients : PushStep(c)
    \/ GatherReturn
    \/ SetFailed
    \/ \E outcome \in {"no_endpoint", "ok", "raised"} : Reload(outcome)
    \/ MarkReloaded
    \/ \E healthy \in BOOLEAN : HealthGate(healthy)
    \/ MarkHealthy
    \/ SetVersion
    \/ SetCompleted
    \/ SetRollingBack
    \/ \E outcome \in {"exit_0", "exit_1", "raised"} : RollbackScript(outcome)
    \/ \E outcome \in {"ok", "raised"} : RollbackReload(outcome)
    \/ RollbackMark
    \/ SetRolledBack
    \/ CancelBegin
    \/ CancelWrite

\* Time passes on the central server.  A heartbeat request is served within
\* one clock unit (the stale threshold is 90 s).
StoreTick ==
    /\ sclock < MaxClock
    /\ \A c \in FleetClients : hb[c].pc = "idle"
    /\ sclock' = sclock + 1
    /\ ret' = NoRet
    /\ UNCHANGED <<clients, wrows, hb>>
    /\ UNCHANGED <<nodeVars, deployVars, libVars>>

\* heartbeats as this repository's HeartbeatReporter builds them, without a
\* deployed_version
StoreNext ==
    \/ \E c \in FleetClients, P \in SUBSET WNames : HbBegin(c, P, "null")
    \/ \E c \in FleetClients : HbWorkload(c)
    \/ \E c \in FleetClients : HbDelete(c)
    \/ \E c \in FleetClients : HbCommit(c)
    \/ \E threshold \in 1..MaxThreshold : MarkStale(threshold)
    \/ \E c \in FleetClients :
          RegisterDiscovered(c, DiscoveredHost, DiscoveredPort)
    \/ StoreTick

InitStore == NodeInit /\ DeployIdle /\ StoreIdle /\ LibIdle

SpecStore == InitStore /\ [][StoreNext]_vars

\* the deployed_version column: heartbeats with and without a version, and
\* the deployer's update_client_deployed_version calls
VersionNext ==
    \/ \E c \in FleetClients, P \in SUBSET WNames, dv \in {"null", "v1"} :
          HbBegin(c, P, dv)
    \/ \E c \in FleetClients : HbWorkload(c)
    \/ \E c \in FleetClients : HbDelete(c)
    \/ \E c \in FleetClients : HbCommit(c)
    \/ \E c \in FleetClients : UpdateClientVersion(c, "v2")

InitVersion == NodeInit /\ DeployIdle /\ StoreIdle /\ LibIdle

SpecVersion == InitVersion /\ [][VersionNext]_vars

(***************************************************************************)
(* api/central_app.py: the check_stale task of the central server, beside  *)
(* the heartbeats it judges.  reaper.warnings counts the "stale check      *)
(* error" lines logged.                                                    *)
(***************************************************************************)
\* sweeps that raise, per behaviour
MaxWarnings == 1

\* the clients send their last heartbeat before this clock value
SilentFrom == MaxClock - MaxThreshold

\* line 67: create_task(check_stale()); the task sleeps first
ReaperStart ==
    /\ reaper.pc = "none"
    /\ reaper' = [reaper EXCEPT !.pc = "sleep"]
    /\ UNCHANGED <<nodeVars, fleetVars, libcall, sched_task, gate>>

\* line 56: the sleep of stale_threshold_seconds / 2 is over
ReaperWake ==
    /\ reaper.pc = "sleep"
    /\ reaper' = [reaper EXCEPT !.pc = "sweep"]
    /\ UNCHANGED <<nodeVars, fleetVars, libcall, sched_task, gate>>

\* lines 57-61: mark_stale_clients returns, back to the head of the loop
ReaperSweep(threshold) ==
    /\ reaper.pc = "sweep"
    /\ clients' = mark_stale(clients, threshold)
    /\ ret' = [op |-> "mark_stale_clients", client |-> "-",
               threshold |-> threshold,
               rowcount |-> rowcount(clients, mark_stale(clients, threshold))]
    /\ reaper' = [reaper EXCEPT !.pc = "sleep"]
    /\ UNCHANGED <<wrows, hb, sclock>>
    /\ UNCHANGED <<nodeVars, deployVars, libcall, sched_task, gate>>

\* a check_stale without "except Exception": the exception ends the task
ReaperRaiseEnds ==
    /\ reaper.pc = "sweep"
    /\ reaper.warnings < MaxWarnings
    /\ reaper' = [reaper EXCEPT !.pc = "ended"]
    /\ UNCHANGED <<nodeVars, fleetVars, libcall, sched_task, gate>>

\* lines 64-65: mark_stale_clients raises before it has written; the
\* warning is logged, back to the head of the loop
ReaperRaise ==
    /\ reaper.pc = "sweep"
    /\ reaper.warnings < MaxWarnings
    /\ reaper' = [reaper EXCEPT !.pc = "sleep", !.warnings = @ + 1]
    /\ UNCHANGED <<nodeVars, fleetVars, libcall, sched_task, gate>>

\* lines 116-119 and 62-63: the server shuts down and cancels the task
ReaperCancel ==
    /\ reaper.pc \in {"sleep", "sweep"}
    /\ reaper' = [reaper EXCEPT !.pc = "cancelled"]
    /\ UNCHANGED <<nodeVars, fleetVars, libcall, sched_task, gate>>

\* the server's clock (datetime.now()) moves on, heartbeats in flight or not
TimePasses ==
    /\ sclock < MaxClock
    /\ sclock' = sclock + 1
    /\ UNCHANGED <<clients, wrows, hb, ret>>
    /\ UNCHANGED <<nodeVars, deployVars, libVars>>

\* heartbeats of nodes without workloads until the clients fall silent, the
\* clock and the reaper
ReaperNext ==
    \/ \E c \in FleetClients : sclock < SilentFrom /\ HbBegin(c, {}, "null")
    \/ \E c \in FleetClients : HbDelete(c)
    \/ \E c \in FleetClients : HbCommit(c)
    \/ TimePasses
    \/ ReaperStart
    \/ ReaperWake
    \/ \E threshold \in 1..MaxThreshold : ReaperSweep(threshold)
    \/ ReaperRaise
    \/ ReaperCancel

InitReaper == NodeInit /\ DeployIdle /\ StoreIdle /\ LibIdle

\* The event loop runs every task that is ready: a heartbeat handler goes on
\* to its commit, time passes, the reaper task is created and wakes from its
\* sleep; and a sweep that is attempted again and again succeeds again and
\* again.
ReaperFairness ==
    /\ \A c \in FleetClients :
          /\ WF_vars(HbDelete(c))
          /\ WF_vars(HbCommit(c))
    /\ WF_vars(TimePasses)
    /\ WF_vars(ReaperStart)
    /\ WF_vars(ReaperWake)
    /\ SF_vars(\E threshold \in 1..MaxThreshold : ReaperSweep(threshold))

SpecReaper == InitReaper /\ [][ReaperNext]_vars /\ ReaperFairness

InitDeploy == NodeInit /\ DeployInit /\ StoreIdle /\ LibIdle

SpecDeploy == InitDeploy /\ [][DeployNext]_vars

\* deployment requests with any target list and batch size
BatchesNext ==
    \E targets \in TargetLists, batch_size \in 1..MaxBatch :
        CreateDeploymentClients(targets, batch_size)

InitBatches == NodeInit /\ DeployIdle /\ StoreIdle /\ LibIdle

SpecBatches == InitBatches /\ [][BatchesNext]_vars

\* the steps of the _execute_deployment task and of its pushes
DeployTask ==
    \/ ExecBegin
    \/ \E c \in FleetClients : PushStep(c)
    \/ GatherReturn
    \/ SetFailed
    \/ \E outcome \in {"no_endpoint", "ok", "raised"} : Reload(outcome)
    \/ MarkReloaded
    \/ \E healthy \in BOOLEAN : HealthGate(healthy)
    \/ MarkHealthy
    \/ SetVersion
    \/ SetCompleted
    \/ SetRollingBack
    \/ \E outcome \in {"exit_0", "exit_1", "raised"} : RollbackScript(outcome)
    \/ \E outcome \in {"ok", "raised"} : RollbackReload(outcome)
    \/ RollbackMark
    \/ SetRolledBack

\* The central server's event loop runs the deployment task whenever it is
\* ready; every script, HTTP request and database call returns or raises.
SpecDeployFair ==
    /\ InitDeploy
    /\ [][DeployNext]_vars
    /\ WF_vars(DeployTask)
    /\ WF_vars(CancelWrite)


(***************************************************************************)
(* Properties                                                              *)
(***************************************************************************)
NTimes(R) == Exists(R) /\ R.spec.run_mode = "n_times"

\* C1: an n_times runner never has run_count above max_runs, and when its
\* status is completed its run_count equals max_runs (SpecRunner: any sequence
\* of start(), stop(), child exits and automatic restarts on one runner).
RunCountWithinMaxRuns ==
    \A r \in RIDs :
        NTimes(rn[r]) =>
            /\ rn[r].run_count <= rn[r].spec.max_runs
            /\ rn[r].status = "completed" =>
                  rn[r].run_count = rn[r].spec.max_runs

\* the status graph of the specification
LegalEdges ==
    {<<"registered", "starting">>, <<"starting", "running">>,
     <<"running", "stopping">>, <<"starting", "stopping">>,
     <<"stopping", "stopped">>, <<"running", "completed">>,
     <<"running", "failed">>, <<"running", "starting">>,
     <<"stopped", "starting">>}

\* C2: every change of the status of one runner's WorkloadState follows an
\* edge of the status graph; completed and failed are never left and stopping
\* is entered from starting or running only.
StatusFollowsGraph ==
    [][\A r \in RIDs :
          (Exists(rn[r]) /\ rn'[r].spec = rn[r].spec
             /\ rn'[r].status # rn[r].status)
          => <<rn[r].status, rn'[r].status>> \in LegalEdges]_vars

InStop(call) ==
    /\ call.kind \in {"stop", "restart"}
    /\ call.pc \in {"term_wait", "kill_wait", "task_wait"}

InStart(call) ==
    /\ call.kind \in {"start", "restart"}
    /\ call.pc = "save_state"

\* C5: while a stop of a workload is in progress, no start or restart of the
\* same workload is executing its start part.
CommandsSerialized ==
    \A c, d \in CIDs :
        (c # d /\ InStop(calls[c]) /\ InStart(calls[d]))
        => calls[c].name # calls[d].name

\* C7: when stop() returns, the runner is stopped with a null pid, its child
\* has exited and its supervision task has finished.
StopPostcondition ==
    (reply.kind = "runner_stop" /\ reply.text = "returned") =>
        /\ rn[1].status = "stopped"
        /\ rn[1].pid = 0
        /\ rn[1].child # "alive"
        /\ ~TaskLive(rn[1])

Forever(R) == Exists(R) /\ R.spec.run_mode = "forever"

\* C8: in forever mode, as long as stop is not requested, every child exit is
\* eventually followed by the launch of a new child with status running,
\* whatever health sweeps and commands run in between (SpecFair: the
\* supervision tasks are scheduled fairly and no launch or database write
\* raises).
ForeverRestarts ==
    \A r \in RIDs :
        (Forever(rn[r]) /\ rn[r].child = "exited" /\ ~rn[r].stop_requested)
        ~> \/ rn[r].child = "alive" /\ rn[r].status = "running"
           \/ rn[r].stop_requested

ForeverRestarted ==
    \E r \in RIDs :
        /\ Forever(rn[r])
        /\ rn[r].run_count = 2
        /\ rn[r].child = "alive"
        /\ rn[r].status = "running"
        /\ ~rn[r].stop_requested

Due(n, t) == entries[n] # NoEntry /\ entries[n] <= t

Scheduled(R) == Exists(R) /\ R.spec.run_mode = "schedule"

\* a runner that was created and started in this step
FreshlyStarted(R) ==
    /\ R.status = "starting"
    /\ R.task = "launch"
    /\ R.run_count = 0
    /\ R.child = "none"

MissedTriggersCoalesce ==
    [][now' # now =>
         \A n \in Names : entries'[n] # NoEntry => entries'[n] > now']_vars

\* C3: once the deployment's status is completed, failed or rolled_back it
\* never changes again, and rolling_back is followed by rolled_back only,
\* whenever cancel_deployment is called.
TerminalDeploymentStatusIsFinal ==
    [][/\ deployment.status \in {"completed", "failed", "rolled_back"}
          => deployment'.status = deployment.status
       /\ deployment.status = "rolling_back"
          => deployment'.status \in {"rolling_back", "rolled_back"}]_vars

\* C4: when the deployment is rolled_back, every client of a batch up to the
\* failed one has its stored deployed_version equal to the previous_version
\* recorded for it, unless its rollback failure was logged.
RolledBackRestoresVersion ==
    deployment.status = "rolled_back" =>
        \A c \in FleetClients :
            dep_clients[c].batch_number <= dtask.batch =>
                \/ stored[c] = dep_clients[c].previous_version
                \/ c \in rb_logged

\* C6: every statement of upsert_heartbeat for client c leaves the workload
\* rows of the other clients as they were, and when the call completes the
\* workload names stored for c are exactly the payload's and c is online.
HeartbeatStoresPayload ==
    [][\A c \in FleetClients :
          /\ hb'[c] # hb[c] =>
                \A d \in FleetClients \ {c} :
                    WorkloadsOf(wrows', d) = WorkloadsOf(wrows, d)
          /\ (hb[c].pc = "commit" /\ hb'[c].pc = "idle") =>
                /\ WorkloadsOf(wrows', c) = hb[c].payload
                /\ clients'[c].status = "online"]_vars

\* a heartbeat naming only "x" is about to return while another client has a
\* row the payload does not name
HeartbeatKeepsOtherRows ==
    \E c \in FleetClients, d \in FleetClients :
        /\ c # d
        /\ hb[c].pc = "commit"
        /\ hb[c].payload = {"x"}
        /\ WorkloadsOf(wrows, c) = {"x"}
        /\ WorkloadsOf(wrows, d) = {"y"}
        /\ clients[d].status = "offline"

\* C14: once cancel_deployment has returned, the deployment is failed with
\* error "Cancelled by user", its task has ended, its id is not in the active
\* set, and no row of the deployment changes any more.
CancelEndsDeployment ==
    [][(deployment.error = "Cancelled by user" /\ cancel = "idle") =>
          /\ deployment.status = "failed"
          /\ ~active
          /\ dtask.pc \in {"done", "cancelled"}
          /\ push = NoPush
          /\ deployment' = deployment
          /\ dep_clients' = dep_clients
          /\ stored' = stored]_vars

\* cancel_deployment has returned after cancelling the task in the middle of
\* the pushes of the second batch
CancelledDuringPush ==
    /\ deployment.error = "Cancelled by user"
    /\ cancel = "idle"
    /\ dtask.pc = "cancelled"
    /\ dtask.batch = 1
    /\ dep_clients["a"].status = "healthy"
    /\ dep_clients["b"].status = "deploying"

\* a failure of the batch the task is in has happened
BatchFailing ==
    \/ dtask.pc = "gather"
         /\ \E c \in FleetClients : push[c] \in {"mark_failed", "false", "raised"}
    \/ dtask.pc \in {"reload", "mark_deployed", "mark_reload_failed"}
         /\ dtask.reload_failed
    \/ dtask.pc \in {"set_rolling_back", "set_failed"}

Summaries == {"Deploy failed", "Reload failed", "Health check timeout"}

\* C15: with auto_rollback a failed batch k takes the deployment from
\* in_progress over rolling_back to rolled_back, where every client of a batch
\* <= k is rolled_back, the script was re-invoked for exactly those of them
\* with a previous_version, and the later batches are still pending; without
\* auto_rollback the deployment becomes failed with a summary and no rollback
\* push is made (unless cancel_deployment ends the task first).
RollbackOnFailure ==
    /\ [](deployment.status = "rolled_back" =>
            /\ deployment.auto_rollback
            /\ \A c \in FleetClients :
                  IF dep_clients[c].batch_number <= dtask.batch
                  THEN /\ dep_clients[c].status = "rolled_back"
                       /\ c \in rb_pushed <=>
                             dep_clients[c].previous_version # "null"
                  ELSE /\ dep_clients[c].status = "pending"
                       /\ c \notin rb_pushed)
    /\ [](~deployment.auto_rollback =>
            /\ rb_pushed = {}
            /\ deployment.status \notin {"rolling_back", "rolled_back"})
    /\ []((deployment.status = "failed"
              /\ deployment.error # "Cancelled by user") =>
            /\ ~deployment.auto_rollback
            /\ deployment.error \in Summaries)
    /\ [][(deployment'.status = "rolling_back"
              /\ deployment.status # "rolling_back")
           => deployment.status = "in_progress"]_vars
    /\ [][(deployment'.status = "rolled_back"
              /\ deployment.status # "rolled_back")
           => deployment.status = "rolling_back"]_vars
    /\ BatchFailing ~>
          \/ deployment.auto_rollback /\ deployment.status = "rolled_back"
          \/ ~deployment.auto_rollback /\ deployment.status = "failed"
          \/ dtask.pc = "cancelled"

\* the second batch failed after the first was healthy, and everything was
\* rolled back: "a" had a previous version, "b" had none
RolledBackBothBatches ==
    /\ deployment.status = "rolled_back"
    /\ dtask.batch = 1
    /\ dep_clients["a"].previous_version = "v1"
    /\ dep_clients["b"].previous_version = "null"
    /\ rb_pushed = {"a"}
    /\ \A c \in FleetClients : dep_clients[c].status = "rolled_back"

PartlyWritten(c) == hb[c].pc \in {"workloads", "delete"}

\* C17: no store call commits on the shared connection while the heartbeat of
\* a client is between its statements, so that nothing of a heartbeat becomes
\* durable before all of it is.
HeartbeatIsOneTransaction ==
    [][\A c \in FleetClients :
          (ret'.op # "none" /\ PartlyWritten(c)) =>
              (ret'.op = "upsert_heartbeat" /\ ret'.client = c)]_vars

\* C18: mark_stale_clients(T) turns offline exactly the online clients last
\* seen before now - T, leaves every other row as it was, and returns how
\* many rows it turned.
StaleSweepExact ==
    [][ret'.op = "mark_stale_clients" =>
         LET stale == {c \in FleetClients :
                          /\ clients[c].status = "online"
                          /\ clients[c].last_seen < sclock - ret'.threshold}
         IN  /\ \A c \in stale :
                   clients'[c] = [clients[c] EXCEPT !.status = "offline"]
             /\ \A c \in FleetClients \ stale : clients'[c] = clients[c]
             /\ ret'.rowcount = Cardinality(stale)]_vars

\* a sweep has just turned one stale client offline and left a client seen
\* within the threshold online
SweptOneOfTwo ==
    /\ ret.op = "mark_stale_clients"
    /\ ret.rowcount = 1
    /\ clients["a"].status = "offline"
    /\ clients["b"].status = "online"

\* C19: the heartbeat's client upsert leaves the stored deployed_version as
\* it was when the payload's deployed_version is null and replaces it
\* otherwise, whatever heartbeats and deployer updates came before.
HeartbeatVersionCoalesce ==
    [][\A c \in FleetClients :
          (hb[c].pc = "idle" /\ hb'[c].pc # "idle") =>
              /\ stored'[c] = IF hb'[c].version = "null" THEN stored[c]
                              ELSE hb'[c].version
              /\ \A d \in FleetClients \ {c} : stored'[d] = stored[d]]_vars

\* a heartbeat without a version is being stored for a client whose version
\* the deployer has set
NullVersionKeepsDeployed ==
    \E c \in FleetClients :
        /\ hb[c].pc = "commit"
        /\ hb[c].version = "null"
        /\ stored[c] = "v2"

\* C20: register_discovered_client leaves an online row as it is, and makes
\* any other row (or a missing one) discovered with the given host and port;
\* no other client's row changes.
DiscoveryKeepsOnlineRows ==
    [][ret'.op = "register_discovered_client" =>
         LET c == ret'.client
         IN  /\ \A d \in FleetClients \ {c} : clients'[d] = clients[d]
             /\ IF clients[c].status = "online"
                THEN clients'[c] = clients[c]
                ELSE clients'[c] =
                        [clients[c] EXCEPT !.status = "discovered",
                                           !.host = DiscoveredHost,
                                           !.api_port = DiscoveredPort]]_vars

\* a registration has just returned for a client that is online at the
\* address of its heartbeats, and an offline client was re-discovered
DiscoveredWhileOnline ==
    /\ ret.op = "register_discovered_client"
    /\ clients[ret.client].status = "online"
    /\ clients[ret.client].host = HeartbeatHost
    /\ \E d \in FleetClients :
          /\ clients[d].status = "discovered"
          /\ clients[d].last_seen # NoSeen


\* the step in which a reload_configs call returns its four lists
ReloadReturns == reply'.kind = "reload" /\ reply'.text = "returned"

\* the registry as the returning call found it, and the specs it loaded
OldSpecs == IF rl.busy THEN rl.old ELSE registry

NewSpecs == files'

RemovedIsGone ==
    [][ReloadReturns =>
        \A n \in reply'.changes.removed :
            /\ registry'[n] = NoSpec
            /\ runners'[n] = 0
            /\ entries'[n] = NoEntry
            /\ \A r \in RIDs :
                  rn'[r].spec.name = n => rn'[r].child # "alive"]_vars

\* C13: a reload that finds an invalid file ends in a ConfigError and leaves
\* the registry, the runner map, the scheduler entries and every runner as
\* they were
FailedReloadChangesNothing ==
    [][(reloads' = reloads + 1 /\ \E n \in Names : files'[n] = BadFile) =>
        /\ reply'.kind = "reload"
        /\ reply'.text = "ConfigError"
        /\ UNCHANGED <<registry, runners, entries, rn>>]_vars

\* a reload failed on the invalid file of a workload whose child runs on
InvalidFileOfRunningWorkload ==
    /\ reply.kind = "reload"
    /\ reply.text = "ConfigError"
    /\ \E n \in Names :
          /\ files[n] = BadFile
          /\ registry[n] # NoSpec
          /\ runners[n] # 0
          /\ rn[runners[n]].child = "alive"

\* C21: every payload the reporter builds carries the orchestrator's
\* deployed_version of that moment, the client name, and for every
\* registered workload its status, pid and run_count
PayloadCarriesVersion ==
    [][payload' # payload =>
        /\ payload'.deployed_version = deployed_version
        /\ payload'.client_name = ClientName
        /\ \A n \in Names :
              registry[n] # NoSpec /\ runners[n] # 0 =>
                 /\ payload'.workloads[n].status = rn[runners[n]].status
                 /\ payload'.workloads[n].pid = rn[runners[n]].pid
                 /\ payload'.workloads[n].run_count =
                       rn[runners[n]].run_count]_vars

\* C22: a start() call on a runner whose status is starting or running
\* changes nothing of the runner: its supervision task, its child, its
\* status, pid and run_count are as before
StartIsIdempotent ==
    [][(reply'.kind = "runner_start" /\ \E r \in RIDs : is_running(rn[r]))
         => UNCHANGED rn]_vars

\* start() has returned on a runner that is running its second child
StartedWhileRunning ==
    /\ reply.kind = "runner_start"
    /\ rn[1].status = "running"
    /\ rn[1].child = "alive"
    /\ rn[1].run_count = 2

\* C23: a reload that finds the files defining exactly the registered specs
\* returns at once with nothing added, removed or restarted and every
\* registered name unchanged, and leaves the registry, the runner map, every
\* runner and every scheduler entry as they were; so does the next one
ReloadOfSameFiles ==
    [][(~rl.busy /\ (rl'.busy \/ reply'.kind = "reload") /\ files' = registry)
        => /\ ~rl'.busy
           /\ reply'.text = "returned"
           /\ reply'.changes =
                 [NoChanges EXCEPT
                     !.unchanged = {n \in Names : registry[n] # NoSpec}]
           /\ UNCHANGED <<registry, runners, rn, entries>>]_vars

\* a reload has found nothing to do while a scheduled workload's next_run
\* lies beyond the first cron match and the child of its last trigger runs
ReloadedUnchanged ==
    /\ reply.kind = "reload"
    /\ \E n \in reply.changes.unchanged :
          /\ entries[n] > CronNext(0)
          /\ runners[n] # 0
          /\ rn[runners[n]].child = "alive"

RECURSIVE Concat(_)
Concat(qs) == IF qs = <<>> THEN <<>> ELSE Head(qs) \o Concat(Tail(qs))

\* C24: start_deployment gives every target exactly one row, with
\* batch_number = floor(index / batch_size) for the target's position index
\* (from 0) in the target list; the batches in their order spell the target
\* list, and each holds between 1 and batch_size clients
BatchNumbers ==
    libcall.fn = "start_deployment" =>
        LET targets == libcall.args[1]
            batch_size == libcall.args[2]
            batches == libcall.out[1]
            rows == libcall.out[2]
        IN  /\ \A i \in 1..Len(targets) :
                  /\ Cardinality({j \in 1..Len(rows) :
                                     rows[j][1] = targets[i]}) = 1
                  /\ \A j \in 1..Len(rows) :
                        rows[j][1] = targets[i] =>
                           rows[j][2] = (i - 1) \div batch_size
            /\ Len(rows) = Len(targets)
            /\ Concat(batches) = targets
            /\ \A k \in 1..Len(batches) :
                  Len(batches[k]) >= 1 /\ Len(batches[k]) <= batch_size

\* three targets in batches of two: the last batch is short
ShortLastBatch ==
    /\ libcall.fn = "start_deployment"
    /\ Len(libcall.args[1]) = 3
    /\ libcall.args[2] = 2
    /\ Len(libcall.out[1]) = 2

\* C25: register of a name already present fails and changes nothing,
\* otherwise it binds the name to the spec and nothing else changes;
\* unregister of an absent name fails and changes nothing, otherwise it
\* removes that name only; get of an absent name fails, otherwise it returns
\* the bound spec, and changes nothing; so a name stays bound to the spec of
\* its last successful register until it is unregistered, and an unregister
\* right after a successful register of the name gives back the contents
\* from before the register
RegistryContract ==
    [][LET name == libcall'.args.name
           spec == libcall'.args.spec
           out == libcall'.out
       IN  /\ libcall'.fn = "register" =>
                 IF registry[name] # NoSpec
                 THEN out.error = "ValueError" /\ registry' = registry
                 ELSE /\ out.error = "null"
                      /\ registry'[name] = spec
                      /\ \A m \in Names \ {name} : registry'[m] = registry[m]
           /\ libcall'.fn = "unregister" =>
                 IF registry[name] = NoSpec
                 THEN out.error = "KeyError" /\ registry' = registry
                 ELSE /\ out.error = "null"
                      /\ registry'[name] = NoSpec
                      /\ \A m \in Names \ {name} : registry'[m] = registry[m]
           /\ libcall'.fn = "get" =>
                 /\ registry' = registry
                 /\ IF registry[name] = NoSpec THEN out.error = "KeyError"
                    ELSE out.error = "null" /\ out.value = registry[name]
           /\ (/\ libcall.fn = "register"
               /\ libcall.out.error = "null"
               /\ libcall'.fn = "unregister"
               /\ name = libcall.args.name) =>
                 /\ out.error = "null"
                 /\ registry' = [registry EXCEPT ![name] = NoSpec]
           /\ (libcall.fn = "get" /\ libcall.out.error = "null"
               /\ libcall'.fn = "get" /\ name = libcall.args.name) =>
                 out = libcall.out]_vars

\* get has returned the schedule spec a name is bound to while the other
\* name is bound too
ReboundName ==
    /\ libcall.fn = "get"
    /\ libcall.out.error = "null"
    /\ libcall.out.value.run_mode = "schedule"
    /\ libcall.out.value = registry[libcall.args.name]
    /\ \A n \in Names : registry[n] # NoSpec

\* C26: the strategy of a run mode answers (should_restart, is_complete) =
\* (TRUE, FALSE) for forever, (run_count < max_runs, run_count >= max_runs)
\* for n_times with an absent max_runs counted as 1, (FALSE, TRUE) for
\* schedule, whatever the exit code; selecting a strategy for any other tag
\* fails
StrategyTable ==
    libcall.fn = "get_strategy" =>
        LET a == libcall.args
            max == IF a.max_runs = 0 THEN 1 ELSE a.max_runs
            answer == <<libcall.out.should_restart, libcall.out.is_complete>>
        IN  /\ a.run_mode = "forever" =>
                  libcall.out.error = "null" /\ answer = <<TRUE, FALSE>>
            /\ a.run_mode = "n_times" =>
                  /\ libcall.out.error = "null"
                  /\ answer = <<a.run_count < max, a.run_count >= max>>
            /\ a.run_mode = "schedule" =>
                  libcall.out.error = "null" /\ answer = <<FALSE, TRUE>>
            /\ a.run_mode \notin {"forever", "n_times", "schedule"} =>
                  libcall.out.error = "ValueError"

\* an n_times strategy without max_runs was asked after the first run ended
\* with a failure
AbsentMaxRunsAsked ==
    /\ libcall.fn = "get_strategy"
    /\ libcall.args.run_mode = "n_times"
    /\ libcall.args.max_runs = 0
    /\ libcall.args.run_count = 1
    /\ libcall.args.exit_code = 1
    /\ libcall.out.is_complete

\* C27: when the callback of a scheduler entry raises, the loop goes on: the
\* entry's next_run is advanced all the same, every other entry due at that
\* iteration has its callback awaited and advances too, entries not due are
\* left alone, and the loop task is still running for the iterations after.
CallbackErrorSwallowed ==
    [][(now' > now /\ libcall'.fn = "_run") =>
          /\ sched_task' = "running"
          /\ \A n \in Names :
                IF entries[n] # NoEntry /\ now' >= entries[n]
                THEN /\ n \in libcall'.out
                     /\ entries'[n] = advance(entries[n])
                ELSE /\ n \notin libcall'.out
                     /\ entries'[n] = entries[n]]_vars

\* an iteration in which one due entry's callback raised and the other due
\* entry fired, the first of them having raised at an earlier iteration too
RaisedTwiceOtherFired ==
    /\ libcall.fn = "_run"
    /\ \E n, m \in Names :
          /\ n # m
          /\ n \in libcall.args.earlier
          /\ libcall.args.outcomes[n] = "raised"
          /\ {n, m} \subseteq libcall.out
          /\ entries[n] = advance(libcall.args.before[n])
          /\ entries[m] = advance(libcall.args.before[m])
          /\ sched_task = "running"

\* C28: a health sweep changes a WorkloadState only when its status is
\* running, its pid is not null and no process has that pid; then the status
\* becomes failed and last_error "Process <pid> not found", nothing else.
\* Every other state comes out of the sweep exactly as it went in.
SweepChangesOnlyDeadRunning ==
    libcall.fn = "_check_all" =>
        /\ Len(libcall.out) = Len(libcall.args.states)
        /\ \A i \in 1..Len(libcall.out) :
              LET S == libcall.args.states[i]
                  T == libcall.out[i]
              IN  IF /\ S.status = "running"
                     /\ S.pid # 0
                     /\ S.pid \notin libcall.args.alive
                  THEN T = [S EXCEPT !.status = "failed",
                                     !.last_error = NotFound(S.pid)]
                  ELSE T = S

\* a sweep over a running state whose process is gone, marked failed, and a
\* failed state with the same missing pid and an error of its own, untouched
DeadMarkedOtherKept ==
    /\ libcall.fn = "_check_all"
    /\ Len(libcall.out) = 2
    /\ libcall.args.states[1].status = "running"
    /\ libcall.args.states[1].pid \in Pids \ libcall.args.alive
    /\ libcall.out[1].status = "failed"
    /\ libcall.out[1].last_error = NotFound(libcall.args.states[1].pid)
    /\ libcall.args.states[2].status = "failed"
    /\ libcall.args.states[2].pid = libcall.args.states[1].pid
    /\ libcall.args.states[2].last_error = ExitError
    /\ libcall.out[2] = libcall.args.states[2]

\* the runners of the name n whose child process is alive
LiveChildren(n) ==
    {r \in RIDs : Exists(rn[r]) /\ rn[r].spec.name = n /\ rn[r].child = "alive"}

\* C29: for every workload name at most one child launched by the supervisor
\* is alive, and a live child belongs to the runner the orchestrator's runner
\* map holds for that name, whatever the interleaving of commands, scheduled
\* triggers, health sweeps and supervised restarts.
OneLiveChildPerName ==
    \A n \in Names :
        /\ Cardinality(LiveChildren(n)) <= 1
        /\ \A r \in LiveChildren(n) : runners[n] = r

\* C30: every launch appends one run record and every exit of the child, also
\* one caused by stop() or by the timeout kill, sets its finished_at and
\* exit_code: a runner that is stopped, completed or failed has no record
\* with finished_at null, and as many finished records as its run_count.
RunRecordsClosed ==
    \A r \in RIDs :
        (Exists(rn[r]) /\ rn[r].status \in {"stopped", "completed", "failed"})
            => /\ rn[r].started = rn[r].finished
               /\ rn[r].finished = rn[r].run_count

\* the clients of the batch the deployment task is working on
RunningBatch == BatchClients(dtask.batch)

\* C31: batches run one after another.  A row leaves status pending only
\* while its own batch is the running one and every row of the batch before
\* is healthy; the reload loop is entered only when every push of the batch
\* returned True; a row becomes deployed only as the client the reload loop
\* is at, the clients after it still waiting for their reload; and the health
\* gate is entered only when every row of the batch is deployed.
BatchesInSequence ==
    [][/\ \A c \in FleetClients :
             (dep_clients[c].status = "pending"
                /\ dep_clients'[c].status # "pending")
                => /\ dep_clients[c].batch_number = dtask.batch
                   /\ \A d \in FleetClients :
                         dep_clients[d].batch_number + 1
                            = dep_clients[c].batch_number
                            => dep_clients[d].status = "healthy"
       /\ (dtask.pc # "reload" /\ dtask'.pc = "reload")
             => \/ /\ dtask.pc = "gather"
                   /\ \A c \in FleetClients :
                         InSeq(c, RunningBatch) => push[c] = "true"
                \/ dtask.pc \in {"mark_deployed", "mark_reload_failed"}
       /\ \A c \in FleetClients :
             (dep_clients[c].status # "deployed"
                /\ dep_clients'[c].status = "deployed")
                => /\ dtask.pc = "mark_deployed"
                   /\ c = RunningBatch[dtask.idx]
                   /\ \A j \in (dtask.idx + 1)..Len(RunningBatch) :
                         dep_clients[RunningBatch[j]].status = "deploying"
       /\ (dtask.pc # "health" /\ dtask'.pc = "health")
             => \A c \in FleetClients :
                   InSeq(c, RunningBatch) => dep_clients'[c].status = "deployed"
      ]_vars

\* the second of two batches is at its health gate, its client deployed, the
\* client of the first batch healthy
SecondBatchAtGate ==
    /\ Len(Batches) = 2
    /\ dtask.pc = "health"
    /\ dtask.batch = 1
    /\ \A c \in FleetClients :
          dep_clients[c].status =
             IF dep_clients[c].batch_number = 0 THEN "healthy" ELSE "deployed"

\* C32: when the push of a client fails, by a non-zero exit of the deploy
\* script or by an exception of the script's process, the client's row is
\* failed when the handling of the failed batch (rollback, or deployment
\* failed) begins.
FailedPushMarked ==
    [][(dtask.pc = "gather"
          /\ dtask'.pc \in {"set_failed", "set_rolling_back"})
          => \A c \in FleetClients :
                push[c] \in {"false", "raised"}
                   => dep_clients[c].status = "failed"]_vars

\* the runners whose status is stopped, completed or failed
AtRest == {r \in RIDs : Exists(rn[r])
                        /\ rn[r].status \in {"stopped", "completed", "failed"}}

\* C33: while a runner's status is stopped, completed or failed, no child it
\* launched is alive, and its supervision loop launches no child from that
\* status (a start() first makes the status starting), whoever set the
\* status: stop(), the loop, the loop's exception handler or a health sweep.
NoChildAtRest ==
    /\ [](\A r \in AtRest : rn[r].child # "alive")
    /\ [][\A r \in AtRest : rn'[r].child = "alive" => rn[r].child = "alive"]_vars

\* shutdown() has returned
ShutdownDone ==
    /\ phase = "down"
    /\ \A c \in CIDs : calls[c].kind # "shutdown"

\* C34: once shutdown() has completed no child launched by this supervisor
\* is alive and none is launched, and the scheduler loop runs no iteration,
\* whatever commands, triggers and health sweeps came before or overlapped it.
ShutdownLeavesNoChild ==
    /\ [](ShutdownDone => \A r \in RIDs : rn[r].child # "alive")
    /\ [][ShutdownDone =>
            /\ now' = now
            /\ \A r \in RIDs : rn'[r].child = "alive" => rn[r].child = "alive"
         ]_vars

\* C35: once a deployment is completed, failed or rolled_back, none of its
\* rows is deploying or deployed: each is pending, healthy, failed or
\* rolled_back.
NoRowInFlightAtEnd ==
    deployment.status \in {"completed", "failed", "rolled_back"}
        => \A c \in FleetClients :
              dep_clients[c].status \in
                 {"pending", "healthy", "failed", "rolled_back"}

\* the supervision loop of runner r ends in this step, neither cancelled nor
\* completed: an exception has left it
LoopRaised(r) ==
    /\ rn[r].task \in {"launch", "record_start", "record_finish"}
    /\ rn'[r].task = "done"
    /\ ~rn'[r].stop_requested
    /\ rn'[r].status # "completed"

\* C36: when a step of the supervision loop raises, the runner becomes
\* failed and its loop has ended; the orchestrator's state and every other
\* runner, its supervision task included, are untouched; and a loop that has
\* ended launches no child.
SupervisionErrorContained ==
    [][\A r \in RIDs :
          /\ LoopRaised(r) =>
                /\ rn'[r].status = "failed"
                /\ \A q \in RIDs \ {r} : rn'[q] = rn[q]
                /\ UNCHANGED <<phase, registry, runners, entries, calls>>
          /\ rn[r].task = "done" =>
                /\ rn'[r].task = "done"
                /\ rn'[r].child = "alive" => rn[r].child = "alive"
      ]_vars

\* a runner whose loop ended on an exception after its launch, failed, while
\* the other workload's runner is running under its live supervision task
FailedBesideRunning ==
    \E r, q \in RIDs :
        /\ r # q
        /\ rn[r].status = "failed" /\ rn[r].task = "done"
        /\ rn[r].child = "alive"
        /\ rn[q].status = "running" /\ rn[q].task = "wait"
        /\ rn[q].child = "alive"
        /\ rn[q].spec.name # rn[r].spec.name

\* the round last completed had an "ok" answer from every client of the batch
RoundAllOk ==
    /\ gate.rounds > 0
    /\ Len(gate.answers) = Len(gate.names)
    /\ \A i \in 1..Len(gate.answers) : gate.answers[i] = "ok"

ReloadAllOrNothing ==
    [][(/\ rl.busy
        /\ reply'.kind = "reload"
        /\ reply'.text \notin {"returned", "ConfigError"}) =>
            /\ registry' = rl.old
            /\ \A n \in Names :
                  rl.old[n] = NoSpec =>
                      runners'[n] = 0 /\ entries'[n] = NoEntry
      ]_vars

\* stop_workload(n) has returned "Stopped" and no handler about n is in
\* flight: the runner of n is stopped
StoppedByCommand(n) ==
    /\ phase = "serving"
    /\ runners[n] # 0
    /\ rn[runners[n]].status = "stopped"
    /\ \A c \in CIDs : calls[c].name # n

\* C39: while the runner of a workload is stopped by a stop command and no
\* start, restart or reload about that workload has arrived, no step starts a
\* supervision task for the workload and none launches a child of it, whatever
\* its run mode and whenever its cron trigger fires.
StoppedStaysStopped ==
    [][\A n \in Names :
          (/\ StoppedByCommand(n)
           /\ \A c \in CIDs : calls'[c].name # n
           /\ reply'.name # n) =>
              \A r \in RIDs :
                  rn'[r].spec.name = n =>
                      /\ rn'[r].task = "launch" =>
                            rn[r].spec.name = n /\ rn[r].task = "launch"
                      /\ rn'[r].child = "alive" =>
                            rn[r].spec.name = n /\ rn[r].child = "alive"
      ]_vars

\* C40: while the server runs, a client that is online and sends no further
\* heartbeat is eventually marked offline by the reaper; and a sweep that
\* raises leaves the reaper in its loop, asleep before its next sweep.
StaleEventuallyOffline ==
    /\ \A c \in FleetClients :
          (clients[c].status = "online") ~>
              (clients[c].status = "offline" \/ reaper.pc = "cancelled")
    /\ [][reaper'.warnings # reaper.warnings =>
              reaper.pc = "sweep" /\ reaper'.pc = "sleep"]_vars

\* a sweep has marked a client offline after an earlier sweep had raised
SweptAfterError ==
    /\ reaper.warnings > 0
    /\ reaper.pc = "sleep"
    /\ ret.op = "mark_stale_clients" /\ ret.rowcount > 0
    /\ \E c \in FleetClients : clients[c].status = "offline"

====
